---------------------------- MODULE Spec2Model ----------------------------
(***************************************************************************)
(* Model of the ElSol medical-conversation store: VectorStoreService       *)
(* (src/database/vector_store_service.py), PatientService                  *)
(* (src/database/patient_service.py) and SearchService                     *)
(* (src/database/search_service.py) over two Chroma collections,           *)
(* "conversations" and "patients".                                         *)
(*                                                                         *)
(* Python strings are sequences of one-character strings, so that          *)
(* substring containment, concatenation and JSON text are computed and not *)
(* assumed.  Python's None is the value None below.                        *)
(***************************************************************************)
EXTENDS Naturals, Sequences, FiniteSets, TLC

VARIABLES
    conversations,  \* the "conversations" collection, in insertion order
    patients,       \* the "patients" collection, in insertion order
    now,            \* the instant datetime.now() reads
    last,           \* what the last operation did and gave back to its caller
    running         \* the store_patient_data calls that run at the same time,
                    \* each with its position and its local variables

vars == <<conversations, patients, now, last, running>>

---------------------------------------------------------------------------
(* Bounds of the model *)

\* Largest number of documents in the conversations collection.
MaxConvs == 2

\* Last instant of the clock.
MaxClock == 1

\* Longest list given to json.dumps, and longest string of single characters
\* in it.
MaxItems == 2
MaxStrLen == 1

\* Most records a patient has beyond the number a summary asks for.
MaxExcess == 1

---------------------------------------------------------------------------
(* Python values *)

None == <<"None">>

Truthy(x) == x # None /\ x # <<>>

\* Python's `x or d`
PyOr(x, d) == IF Truthy(x) THEN x ELSE d

\* str(x) inside an f-string
Str(x) == IF x = None THEN <<"N", "o", "n", "e">> ELSE x

\* The " " placeholder the services store for an absent value.
Blank == <<" ">>

\* `sub in s` for strings
Contains(sub, s) ==
    \E i \in 0..Len(s) :
        /\ i + Len(sub) <= Len(s)
        /\ SubSeq(s, i + 1, i + Len(sub)) = sub

\* sep.join(items)
RECURSIVE Join(_, _)
Join(sep, items) ==
    IF items = <<>> THEN <<>>
    ELSE IF Len(items) = 1 THEN items[1]
    ELSE items[1] \o sep \o Join(sep, Tail(items))

\* Order of the characters that timestamps are written with.
DigitChars == <<"0", "1", "2", "3", "4", "5", "6", "7", "8", "9">>

CharOrd(c) == CHOOSE n \in 1..Len(DigitChars) : DigitChars[n] = c

\* Python's a <= b on strings: lexicographic, a proper prefix is smaller.
RECURSIVE StrLeq(_, _)
StrLeq(a, b) ==
    IF a = <<>> THEN TRUE
    ELSE IF b = <<>> THEN FALSE
    ELSE IF Head(a) = Head(b) THEN StrLeq(Tail(a), Tail(b))
    ELSE CharOrd(Head(a)) < CharOrd(Head(b))

\* datetime.now().isoformat(): a fixed-width rendering of the instant.
IsoFormat(t) == <<DigitChars[(t \div 10) + 1], DigitChars[(t % 10) + 1]>>

\* hashlib.md5(s.encode()).hexdigest(): collision-free on the strings used.
Md5(s) == <<"md5", s>>

---------------------------------------------------------------------------
(* json.dumps / json.loads of a list of strings *)

Quote == "\""
Backslash == "\\"

\* A character outside ASCII (the a with acute accent of "náuseas"), and the
\* \uXXXX escape json.dumps writes for it (ensure_ascii is on).
AAcute == "á"
AAcuteEscape == <<Backslash, "u", "0", "0", "e", "1">>

\* Variant: the characters are written as they are.
RECURSIVE JsonEscapeNothing(_)
JsonEscapeNothing(s) ==
    IF s = <<>> THEN <<>> ELSE <<Head(s)>> \o JsonEscapeNothing(Tail(s))

RECURSIVE JsonEscape(_)
JsonEscape(s) ==
    IF s = <<>> THEN <<>>
    ELSE IF Head(s) = Quote \/ Head(s) = Backslash
         THEN <<Backslash, Head(s)>> \o JsonEscape(Tail(s))
    ELSE IF Head(s) = AAcute
         THEN AAcuteEscape \o JsonEscape(Tail(s))
         ELSE <<Head(s)>> \o JsonEscape(Tail(s))

JsonString(s) == <<Quote>> \o JsonEscape(s) \o <<Quote>>

RECURSIVE JsonItems(_)
JsonItems(l) ==
    IF l = <<>> THEN <<>>
    ELSE <<JsonString(Head(l))>> \o JsonItems(Tail(l))

\* json.dumps(l): '["a", "b"]'
JsonDumps(l) == <<"[">> \o Join(<<",", " ">>, JsonItems(l)) \o <<"]">>

JsonError == <<"JSONDecodeError">>

\* Reads the text from position i.  mode: "item" expects a string or the
\* closing bracket, "str" is inside a string, "sep" expects "," or "]".
RECURSIVE JsonParse(_, _, _, _, _)
JsonParse(s, i, mode, cur, acc) ==
    IF i > Len(s) THEN JsonError
    ELSE LET c == s[i] IN
      CASE mode = "item" ->
             IF c = " " THEN JsonParse(s, i + 1, "item", cur, acc)
             ELSE IF c = Quote THEN JsonParse(s, i + 1, "str", <<>>, acc)
             ELSE IF c = "]" /\ acc = <<>> /\ i = Len(s) THEN acc
             ELSE JsonError
        [] mode = "str" ->
             IF c = Backslash
             THEN IF i + 1 > Len(s) THEN JsonError
                  ELSE IF s[i + 1] \in {Quote, Backslash}
                  THEN JsonParse(s, i + 2, "str", Append(cur, s[i + 1]), acc)
                  ELSE IF i + 5 <= Len(s) /\ SubSeq(s, i, i + 5) = AAcuteEscape
                  THEN JsonParse(s, i + 6, "str", Append(cur, AAcute), acc)
                  ELSE JsonError
             ELSE IF c = Quote
                  THEN JsonParse(s, i + 1, "sep", <<>>, Append(acc, cur))
             ELSE JsonParse(s, i + 1, "str", Append(cur, c), acc)
        [] mode = "sep" ->
             IF c = " " THEN JsonParse(s, i + 1, "sep", cur, acc)
             ELSE IF c = "," THEN JsonParse(s, i + 1, "item", cur, acc)
             ELSE IF c = "]" /\ i = Len(s) THEN acc
             ELSE JsonError

\* json.loads(s) for the text of a list of strings
JsonLoads(s) ==
    IF s # <<>> /\ Head(s) = "[" THEN JsonParse(s, 2, "item", <<>>, <<>>)
    ELSE JsonError

---------------------------------------------------------------------------
(* Inputs *)

Ana == <<"A", "n", "a">>
AnaMaria == <<"A", "n", "a", " ", "M">>

\* patient_info.name of an input: a name, a longer name containing it, or none
Names == {Ana, AnaMaria, None}

Fiebre == <<"f", "i", "e", "b", "r", "e">>
Tos == <<"t", "o", "s">>

Alta == <<"a", "l", "t", "a">>
Normal == <<"n", "o", "r", "m", "a", "l">>
P1 == <<"p", "1">>
P2 == <<"p", "2">>
Conv1 == <<"c", "1">>
Conv2 == <<"c", "2">>

\* An optional integer (an age): the integer in a one-element sequence, or
\* the empty sequence for None.
NoInt == <<>>
Int(n) == <<n>>

\* Python's `x or 0` for an optional integer
IntOrZero(x) == IF x = NoInt THEN 0 ELSE x[1]

\* What one transcript gives besides the name.
Payloads ==
    { [conversation_id |-> Conv1, symptoms |-> <<Fiebre>>, medications |-> <<>>,
       conversation_date |-> None, promoter_id |-> P1, age |-> NoInt,
       priority_level |-> Alta, follow_up_needed |-> FALSE],
      [conversation_id |-> Conv2, symptoms |-> <<Tos>>, medications |-> <<Tos>>,
       conversation_date |-> <<"0", "5">>, promoter_id |-> P2, age |-> Int(45),
       priority_level |-> Alta, follow_up_needed |-> TRUE],
      [conversation_id |-> Conv1, symptoms |-> <<>>, medications |-> <<>>,
       conversation_date |-> <<"0", "0">>, promoter_id |-> P1, age |-> NoInt,
       priority_level |-> Normal, follow_up_needed |-> FALSE] }

\* The names and payloads of the inputs: every name with every payload, and
\* the empty string as name with one payload.
NamedInputs ==
    (Names \X Payloads) \cup ({<<>>} \X {p \in Payloads : p.follow_up_needed})

\* patient_data as store_patient_data receives it
PatientData ==
    { [name |-> np[1], age |-> np[2].age,
       conversation_id |-> np[2].conversation_id, symptoms |-> np[2].symptoms,
       medications |-> np[2].medications,
       conversation_date |-> np[2].conversation_date,
       promoter_id |-> np[2].promoter_id,
       priority_level |-> np[2].priority_level,
       follow_up_needed |-> np[2].follow_up_needed] : np \in NamedInputs }

\* Where a collection call of an ingestion may fail (store unavailable).
StoreFaults == {"none", "conversations.add", "patients.get", "patients.write"}

\* The services are called one call at a time: no call is in progress and
\* the result of the last one has been taken.
Idle == last.op = "idle"

---------------------------------------------------------------------------
(* A Chroma collection: a sequence of documents [id, metadata, document],  *)
(* with the contract of add, update, get, count and query.                 *)

CollIds(coll) == {coll[i].id : i \in 1..Len(coll)}

\* collection.get(ids=[...]): the documents found, fewer when some are absent
CollGet(coll, ids) == SelectSeq(coll, LAMBDA d : d.id \in ids)

\* collection.count()
CollCount(coll) == Len(coll)

\* collection.add: refuses an id the collection already holds
CollAdd(coll, id, metadata, document) ==
    IF id \in CollIds(coll)
    THEN [ok |-> FALSE, coll |-> coll]
    ELSE [ok |-> TRUE,
          coll |-> Append(coll, [id |-> id, metadata |-> metadata,
                                 document |-> document])]

\* collection.update: replaces metadata and document of an id it holds
CollUpdate(coll, id, metadata, document) ==
    IF id \notin CollIds(coll)
    THEN [ok |-> FALSE, coll |-> coll]
    ELSE [ok |-> TRUE,
          coll |-> [i \in 1..Len(coll) |->
                      IF coll[i].id = id
                      THEN [id |-> id, metadata |-> metadata,
                            document |-> document]
                      ELSE coll[i]]]

---------------------------------------------------------------------------
(* VectorStoreService *)

\* _generate_id: md5 of "{conversation_id}_{patient_name}_{timestamp}"
GenerateId(patient_data, t) ==
    Md5(Str(patient_data.conversation_id) \o <<"_">> \o Str(patient_data.name)
        \o <<"_">> \o IsoFormat(t))

\* _generate_embedding_text: the document body, section by section
GenerateEmbeddingText(patient_data) ==
    [paciente |-> Str(patient_data.name),
     sintomas |-> Join(<<",", " ">>, patient_data.symptoms),
     medicamentos |-> Join(<<",", " ">>, patient_data.medications),
     prioridad |-> Str(patient_data.priority_level),
     seguimiento |-> patient_data.follow_up_needed,
     promotor |-> Str(patient_data.promoter_id),
     fecha |-> Str(patient_data.conversation_date)]

\* The metadata store_patient_data writes with a conversation record.
ConversationMetadata(patient_data, t) ==
    [patient_name |-> PyOr(patient_data.name, Blank),
     patient_age |-> IntOrZero(patient_data.age),
     symptoms_list |-> JsonDumps(patient_data.symptoms),
     medications_list |-> JsonDumps(patient_data.medications),
     conversation_id |-> PyOr(patient_data.conversation_id, Blank),
     conversation_date |-> PyOr(patient_data.conversation_date, IsoFormat(t)),
     promoter_id |-> PyOr(patient_data.promoter_id, Blank),
     priority_level |-> PyOr(patient_data.priority_level, Blank),
     follow_up_needed |-> patient_data.follow_up_needed,
     stored_at |-> IsoFormat(t)]

---------------------------------------------------------------------------
(* PatientService.store_patient_summary *)

\* patient_id: "patient_" + md5 of the patient name
PatientId(patient_name) == <<"patient", Md5(patient_name)>>

SummaryText(patient_data) ==
    [paciente |-> patient_data.name,
     sintomas |-> Join(<<",", " ">>, patient_data.symptoms),
     medicamentos |-> Join(<<",", " ">>, patient_data.medications),
     ultima |-> Str(patient_data.conversation_date)]

PatientMetadata(patient_data, t) ==
    [patient_name |-> PyOr(patient_data.name, Blank),
     patient_age |-> IntOrZero(patient_data.age),
     last_conversation_id |-> PyOr(patient_data.conversation_id, Blank),
     total_conversations |-> 1,
     updated_at |-> IsoFormat(t)]

\* One call of a collection made by an ingestion, as its caller sees it.
Call(coll, op, id, ok) == [coll |-> coll, op |-> op, id |-> id, ok |-> ok]

\* Variant: the upsert without the presence check, always an add.
UpsertProfileAlwaysAdd(pats, patient_data, patient_id, fault, t) ==
    LET res == CollAdd(pats, patient_id, PatientMetadata(patient_data, t),
                       SummaryText(patient_data))
        ok == fault # "patients.write" /\ res.ok
    IN  [patients |-> IF ok THEN res.coll ELSE pats,
         calls |-> <<Call("patients", "add", patient_id, ok)>>]

\* Variant: an update replaces the document and keeps the metadata it finds.
UpsertProfileKeepsMetadata(pats, patient_data, patient_id, fault, t) ==
    IF fault = "patients.get"
    THEN [patients |-> pats,
          calls |-> <<Call("patients", "get", patient_id, FALSE)>>]
    ELSE LET existing == CollGet(pats, {patient_id})
             op == IF existing # <<>> THEN "update" ELSE "add"
             res == IF existing # <<>>
                    THEN CollUpdate(pats, patient_id, existing[1].metadata,
                                    SummaryText(patient_data))
                    ELSE CollAdd(pats, patient_id,
                                 PatientMetadata(patient_data, t),
                                 SummaryText(patient_data))
             ok == fault # "patients.write" /\ res.ok
         IN  [patients |-> IF ok THEN res.coll ELSE pats,
              calls |-> <<Call("patients", "get", patient_id, TRUE),
                          Call("patients", op, patient_id, ok)>>]

\* The upsert under the key patient_id.  Every exception is caught and only
\* printed, so the result is the collection and the calls that were made.
UpsertProfile(pats, patient_data, patient_id, fault, t) ==
    IF fault = "patients.get"
    THEN [patients |-> pats,
          calls |-> <<Call("patients", "get", patient_id, FALSE)>>]
    ELSE LET existing == CollGet(pats, {patient_id})
             op == IF existing # <<>> THEN "update" ELSE "add"
             res == IF existing # <<>>
                    THEN CollUpdate(pats, patient_id,
                                    PatientMetadata(patient_data, t),
                                    SummaryText(patient_data))
                    ELSE CollAdd(pats, patient_id,
                                 PatientMetadata(patient_data, t),
                                 SummaryText(patient_data))
             ok == fault # "patients.write" /\ res.ok
         IN  [patients |-> IF ok THEN res.coll ELSE pats,
              calls |-> <<Call("patients", "get", patient_id, TRUE),
                          Call("patients", op, patient_id, ok)>>]

\* Variant: the profile keyed by the conversation's document id.
StorePatientSummaryByDocId(pats, patient_data, doc_id, fault, t) ==
    IF ~Truthy(patient_data.name)
    THEN [patients |-> pats, calls |-> <<>>]
    ELSE UpsertProfile(pats, patient_data, <<"patient", doc_id>>, fault, t)

\* Variant: no early return for a record without a patient name.
StorePatientSummaryWithoutNameCheck(pats, patient_data, doc_id, fault, t) ==
    UpsertProfile(pats, patient_data, PatientId(patient_data.name), fault, t)

StorePatientSummary(pats, patient_data, doc_id, fault, t) ==
    IF ~Truthy(patient_data.name)
    THEN [patients |-> pats, calls |-> <<>>]
    ELSE UpsertProfile(pats, patient_data, PatientId(patient_data.name), fault, t)

---------------------------------------------------------------------------
(* VectorStoreService.store_patient_data, the whole call *)

\* Variant: the id is returned although the conversations add failed.
StoreResultReturnsAnyway(convs, pats, patient_data, fault, t) ==
    LET doc_id == GenerateId(patient_data, t)
        added == CollAdd(convs, doc_id, ConversationMetadata(patient_data, t),
                         GenerateEmbeddingText(patient_data))
        ok == fault # "conversations.add" /\ added.ok
    IN  [conversations |-> IF ok THEN added.coll ELSE convs,
         patients |-> pats, raised |-> FALSE, ret |-> doc_id,
         doc_id |-> doc_id, had_profile |-> FALSE,
         calls |-> <<Call("conversations", "add", doc_id, ok)>>]

\* Variant: the profile is written before the conversation record is added,
\* and stays when the add fails.
StoreResultProfileFirst(convs, pats, patient_data, fault, t) ==
    LET doc_id == GenerateId(patient_data, t)
        added == CollAdd(convs, doc_id, ConversationMetadata(patient_data, t),
                         GenerateEmbeddingText(patient_data))
        ok == fault # "conversations.add" /\ added.ok
        summary == StorePatientSummary(pats, patient_data, doc_id, fault, t)
    IN  [conversations |-> IF ok THEN added.coll ELSE convs,
         patients |-> summary.patients,
         raised |-> ~ok, ret |-> IF ok THEN doc_id ELSE None,
         doc_id |-> doc_id, had_profile |-> FALSE,
         calls |-> summary.calls
                   \o <<Call("conversations", "add", doc_id, ok)>>]

\* What one call of store_patient_data does to the two collections, and what
\* its caller gets: the add of the conversation record, whose exception is
\* raised again, then the profile upsert, then the id.
StoreResult(convs, pats, patient_data, fault, t) ==
    LET doc_id == GenerateId(patient_data, t)
        added == CollAdd(convs, doc_id, ConversationMetadata(patient_data, t),
                         GenerateEmbeddingText(patient_data))
        ok == fault # "conversations.add" /\ added.ok
        summary == StorePatientSummary(pats, patient_data, doc_id, fault, t)
        had == Truthy(patient_data.name)
               /\ PatientId(patient_data.name) \in CollIds(pats)
    IN  IF ~ok
        THEN [conversations |-> convs, patients |-> pats,
              raised |-> TRUE, ret |-> None, doc_id |-> doc_id,
              had_profile |-> had,
              calls |-> <<Call("conversations", "add", doc_id, FALSE)>>]
        ELSE [conversations |-> added.coll, patients |-> summary.patients,
              raised |-> FALSE, ret |-> doc_id, doc_id |-> doc_id,
              had_profile |-> had,
              calls |-> <<Call("conversations", "add", doc_id, TRUE)>>
                        \o summary.calls]

\* Variant: an ingestion replaces the stored records of the same patient, so
\* that the collection keeps the latest record of each patient only.
StorePatientDataKeepLatest(patient_data, fault) ==
    /\ Idle
    /\ Len(conversations) < MaxConvs
    /\ LET doc_id == GenerateId(patient_data, now)
           kept == SelectSeq(conversations,
                             LAMBDA d : d.metadata.patient_name
                                        # PyOr(patient_data.name, Blank))
           added == CollAdd(kept, doc_id,
                            ConversationMetadata(patient_data, now),
                            GenerateEmbeddingText(patient_data))
           summary == StorePatientSummary(patients, patient_data, doc_id, fault, now)
       IN  /\ conversations' = added.coll
           /\ patients' = summary.patients
           /\ last' = [op |-> "store_patient_data", arg |-> patient_data,
                       raised |-> FALSE, ret |-> doc_id, doc_id |-> doc_id,
                       had_profile |-> FALSE,
                       calls |-> <<Call("conversations", "add", doc_id, TRUE)>>
                                 \o summary.calls]
    /\ UNCHANGED <<now, running>>

\* Variant: the exception of the conversations add is printed and not raised
\* again; the call goes on to the profile and returns the id.
StorePatientDataSwallows(patient_data, fault) ==
    /\ Idle
    /\ Len(conversations) < MaxConvs
    /\ LET doc_id == GenerateId(patient_data, now)
           added == CollAdd(conversations, doc_id,
                            ConversationMetadata(patient_data, now),
                            GenerateEmbeddingText(patient_data))
           ok == fault # "conversations.add" /\ added.ok
           summary == StorePatientSummary(patients, patient_data, doc_id, fault, now)
       IN  /\ conversations' = IF ok THEN added.coll ELSE conversations
           /\ patients' = summary.patients
           /\ last' = [op |-> "store_patient_data", arg |-> patient_data,
                       raised |-> FALSE, ret |-> doc_id, doc_id |-> doc_id,
                       had_profile |-> FALSE,
                       calls |-> <<Call("conversations", "add", doc_id, ok)>>
                                 \o summary.calls]
    /\ UNCHANGED <<now, running>>

StorePatientData(patient_data, fault) ==
    /\ Idle
    /\ Len(conversations) < MaxConvs
    /\ LET stored == StoreResult(conversations, patients, patient_data,
                                 fault, now)
       IN  /\ conversations' = stored.conversations
           /\ patients' = stored.patients
           /\ last' = [op |-> "store_patient_data", arg |-> patient_data,
                       raised |-> stored.raised, ret |-> stored.ret,
                       doc_id |-> stored.doc_id,
                       had_profile |-> stored.had_profile,
                       calls |-> stored.calls]
    /\ UNCHANGED <<now, running>>

---------------------------------------------------------------------------
(* collection.query(query_texts, n_results, where) *)

\* One constraint of a where filter on one metadata key.
Atom(key, op, val) == [key |-> key, op |-> op, val |-> val]

MatchesAtom(metadata, a) ==
    /\ a.key \in DOMAIN metadata
    /\ CASE a.op = "$eq" -> metadata[a.key] = a.val
         [] a.op = "$contains" -> Contains(a.val, metadata[a.key])
         [] a.op = "$gte" -> StrLeq(a.val, metadata[a.key])
         [] a.op = "$lte" -> StrLeq(metadata[a.key], a.val)

\* The documents every constraint of the filter holds of (a hard filter).
Eligible(coll, where) ==
    SelectSeq(coll, LAMBDA d : \A a \in where : MatchesAtom(d.metadata, a))

\* The sets of k of the indices 1..n.
RECURSIVE IndexSets(_, _)
IndexSets(n, k) ==
    IF k = 0 THEN {{}}
    ELSE IF k > n THEN {}
    ELSE IF k = n THEN {1..n}
    ELSE IndexSets(n - 1, k) \cup {x \cup {n} : x \in IndexSets(n - 1, k - 1)}

\* The elements of s at the indices idx, in the order of s.
SubSeqAt(s, idx) ==
    LET upto[i \in 0..Len(s)] ==
            IF i = 0 THEN <<>>
            ELSE IF i \in idx THEN Append(upto[i - 1], s[i])
            ELSE upto[i - 1]
    IN  upto[Len(s)]

\* The subsequences of s with k elements.
SubSeqsOfLen(s, k) == {SubSeqAt(s, idx) : idx \in IndexSets(Len(s), k)}

Min(a, b) == IF a <= b THEN a ELSE b

\* What a query may give: n_results of the eligible documents, all of them
\* when there are no more than n_results.  Which ones survive the cut is
\* decided by the embedding distance, which is not modelled: any choice may
\* happen.  Hits are listed in insertion order.
Query(coll, n_results, where) ==
    LET e == Eligible(coll, where)
    IN  SubSeqsOfLen(e, Min(n_results, Len(e)))

---------------------------------------------------------------------------
(* SearchService *)

\* n_results when the caller gives none
DefaultNResults == 5
LongNResults == 10

\* Variant: a search whose exception reaches the caller.
SearchReturnNoCatch(failed, hits) ==
    IF failed
    THEN [raised |-> TRUE, ret |-> None]
    ELSE [raised |-> FALSE, ret |-> hits]

\* try: ... return formatted_results / except Exception: return []
SearchReturn(failed, hits) ==
    IF failed
    THEN [raised |-> FALSE, ret |-> <<>>]
    ELSE [raised |-> FALSE, ret |-> hits]

\* Variant: the by-name search without its where filter.
WhereByPatientNameUnfiltered(patient_name) == {}

WhereByPatientName(patient_name) ==
    {Atom("patient_name", "$contains", patient_name)}

WhereBySymptoms(symptoms) ==
    {Atom("symptoms", "$contains", JsonDumps(symptoms))}

\* Variant: the date filter without its upper bound.
WhereByDateRangeOpenEnd(start_date, end_date) ==
    {Atom("conversation_date", "$gte", start_date)}

WhereByDateRange(start_date, end_date) ==
    {Atom("conversation_date", "$gte", start_date),
     Atom("conversation_date", "$lte", end_date)}

WhereByPriorityLevel(priority) == {Atom("priority_level", "$eq", priority)}

WhereByPromoter(promoter_id) == {Atom("promoter_id", "$eq", promoter_id)}

\* Variant: the promoter filter is dropped.
WhereComplexNoPromoter(filters) ==
    IF Truthy(filters.priority)
    THEN {Atom("priority_level", "$eq", filters.priority)} ELSE {}

\* search_complex_query: one constraint per filter that is given and truthy.
\* filters is a record of the four keys, None for a key that is not given
\* (all four None: no filters, or an empty dict).
WhereComplex(filters) ==
         (IF Truthy(filters.symptoms)
          THEN {Atom("symptoms_list", "$contains", JsonDumps(filters.symptoms))}
          ELSE {})
         \cup (IF Truthy(filters.priority)
               THEN {Atom("priority_level", "$eq", filters.priority)} ELSE {})
         \cup (IF Truthy(filters.promoter_id)
               THEN {Atom("promoter_id", "$eq", filters.promoter_id)} ELSE {})
         \cup (IF Truthy(filters.patient_name)
               THEN {Atom("patient_name", "$contains", filters.patient_name)}
               ELSE {})

\* A search: the query on the conversations collection, and what the
\* operation returns.  failed: the collection's query raised.  The query text
\* of a search only feeds the ranking, so it is not an input here.
Search(op, arg, n_results, where, failed) ==
    /\ Idle
    /\ \E hits \in Query(conversations, n_results, where) :
          last' = [op |-> op, arg |-> arg, n_results |-> n_results,
                   failed |-> failed] @@ SearchReturn(failed, hits)
    /\ UNCHANGED <<conversations, patients, now, running>>

\* Inputs of the searches
SearchNames == {Ana, AnaMaria}
SearchSymptoms == {<<Fiebre>>, <<Tos>>}
SearchDates == {<<<<"0", "0">>, <<"0", "1">>>>, <<<<"0", "1">>, <<"0", "5">>>>}
SearchPriorities == {Alta, Normal}
SearchPromoters == {P1, P2}
Filters(symptoms, priority, promoter_id, patient_name) ==
    [symptoms |-> symptoms, priority |-> priority,
     promoter_id |-> promoter_id, patient_name |-> patient_name]
SearchFilters ==
    {Filters(None, pr, pm, None) : pr \in {None, Alta}, pm \in {None, P1}}

SearchSimilarPatients(failed) ==
    Search("search_similar_patients", <<>>, DefaultNResults, {}, failed)

SearchByPatientName(patient_name, failed) ==
    Search("search_by_patient_name", patient_name, DefaultNResults,
           WhereByPatientName(patient_name), failed)

SearchBySymptoms(symptoms, failed) ==
    Search("search_by_symptoms", symptoms, DefaultNResults,
           WhereBySymptoms(symptoms), failed)

SearchByDiagnosis(failed) ==
    Search("search_by_diagnosis", <<Fiebre>>, DefaultNResults, {}, failed)

SearchByDateRange(range, failed) ==
    Search("search_by_date_range", range, LongNResults,
           WhereByDateRange(range[1], range[2]), failed)

SearchByPriorityLevel(priority, failed) ==
    Search("search_by_priority_level", priority, LongNResults,
           WhereByPriorityLevel(priority), failed)

SearchByPromoter(promoter_id, failed) ==
    Search("search_by_promoter", promoter_id, LongNResults,
           WhereByPromoter(promoter_id), failed)

SearchComplexQuery(filters, n_results, failed) ==
    Search("search_complex_query", filters, n_results,
           WhereComplex(filters), failed)

SearchHighPriorityPatients(failed) ==
    Search("search_high_priority_patients", <<>>, LongNResults,
           WhereByPriorityLevel(Alta), failed)

---------------------------------------------------------------------------
(* PatientService.get_patient_summary *)

\* n_results of the by-name search behind a summary
SummaryNResults == 50

RECURSIVE Insert(_, _)
Insert(x, s) ==
    IF s = <<>> THEN <<x>>
    ELSE IF StrLeq(x, Head(s)) THEN <<x>> \o s
    ELSE <<Head(s)>> \o Insert(x, Tail(s))

\* Variant: the dates are left in the order of the hits.
Unsorted(l) == l

\* sorted(l) for a list of strings
RECURSIVE Sorted(_)
Sorted(l) == IF l = <<>> THEN <<>> ELSE Insert(Head(l), Sorted(Tail(l)))

Range(s) == {s[i] : i \in 1..Len(s)}

\* max(l) and min(l) for a non-empty list of strings
MaxOf(l) == CHOOSE x \in Range(l) : \A y \in Range(l) : StrLeq(y, x)
MinOf(l) == CHOOSE x \in Range(l) : \A y \in Range(l) : StrLeq(x, y)

\* The conversation_date of the hits that have one, in the order of the hits.
RECURSIVE ConversationDates(_)
ConversationDates(convs) ==
    IF convs = <<>> THEN <<>>
    ELSE (IF Truthy(Head(convs).metadata.conversation_date)
          THEN <<Head(convs).metadata.conversation_date>> ELSE <<>>)
         \o ConversationDates(Tail(convs))

\* Variant: no early return when the search gave nothing.
SummarizeWithoutEmptyCheck(patient_name, convs) ==
    [patient_name |-> patient_name, found |-> TRUE,
     total_conversations |-> Len(convs), conversations |-> convs]

\* The summary built from the hits of the by-name search.
Summarize(patient_name, convs) ==
    IF convs = <<>>
    THEN [patient_name |-> patient_name, found |-> FALSE]
    ELSE IF \E i \in 1..Len(convs) :
               \/ JsonLoads(convs[i].metadata.symptoms_list) = JsonError
               \/ JsonLoads(convs[i].metadata.medications_list) = JsonError
    THEN [patient_name |-> patient_name, found |-> FALSE, error |-> JsonError]
    ELSE LET dates == ConversationDates(convs)
         IN [patient_name |-> patient_name,
             found |-> TRUE,
             total_conversations |-> Len(convs),
             all_symptoms |->
                 UNION {Range(JsonLoads(convs[i].metadata.symptoms_list)) :
                        i \in 1..Len(convs)},
             all_medications |->
                 UNION {Range(JsonLoads(convs[i].metadata.medications_list)) :
                        i \in 1..Len(convs)},
             conversation_dates |-> Sorted(dates),
             last_conversation |-> IF dates # <<>> THEN MaxOf(dates) ELSE None,
             first_conversation |-> IF dates # <<>> THEN MinOf(dates) ELSE None,
             priority_levels |->
                 {convs[i].metadata.priority_level : i \in 1..Len(convs)},
             follow_up_needed |->
                 \E i \in 1..Len(convs) : convs[i].metadata.follow_up_needed,
             conversations |-> convs]

\* Variant: the summary asks the search for its default number of results.
GetPatientSummaryDefaultLimit(patient_name, failed) ==
    /\ Idle
    /\ \E hits \in Query(conversations, DefaultNResults,
                         WhereByPatientName(patient_name)) :
          LET found == SearchReturn(failed, hits)
          IN  last' = [op |-> "get_patient_summary", arg |-> patient_name,
                       failed |-> failed, raised |-> FALSE,
                       ret |-> IF found.raised
                               THEN [patient_name |-> patient_name,
                                     found |-> FALSE, error |-> found.ret]
                               ELSE Summarize(patient_name, found.ret)]
    /\ UNCHANGED <<conversations, patients, now, running>>

\* get_patient_summary: search_by_patient_name with n_results = 50, then the
\* summary; an exception on the way gives found = False with the error.
GetPatientSummary(patient_name, failed) ==
    /\ Idle
    /\ \E hits \in Query(conversations, SummaryNResults,
                         WhereByPatientName(patient_name)) :
          LET found == SearchReturn(failed, hits)
          IN  last' = [op |-> "get_patient_summary", arg |-> patient_name,
                       failed |-> failed, raised |-> FALSE,
                       ret |-> IF found.raised
                               THEN [patient_name |-> patient_name,
                                     found |-> FALSE, error |-> found.ret]
                               ELSE Summarize(patient_name, found.ret)]
    /\ UNCHANGED <<conversations, patients, now, running>>

---------------------------------------------------------------------------
(* PatientService.get_collection_stats and export_collection_to_json *)

\* get_collection_stats: the two counts, or the empty dict when a count
\* raised.  The size of the files on disk is not modelled.
GetCollectionStats(failed) ==
    /\ Idle
    /\ last' = [op |-> "get_collection_stats", failed |-> failed,
                raised |-> FALSE,
                ret |-> IF failed THEN <<>>
                        ELSE [total_patients |-> CollCount(patients),
                              total_conversations |-> CollCount(conversations)]]
    /\ UNCHANGED <<conversations, patients, now, running>>

CollectionNames == {"patients", "conversations", "diagnoses"}

\* Variant: the snapshot lists the first document only.
ExportDataFirstOnly(collection_name, coll, t) ==
    [collection_name |-> collection_name,
     export_date |-> IsoFormat(t),
     total_documents |-> Len(coll),
     documents |-> SubSeq(coll, 1, Min(1, Len(coll)))]

\* The snapshot export_collection_to_json writes to its file.
ExportData(collection_name, coll, t) ==
    [collection_name |-> collection_name,
     export_date |-> IsoFormat(t),
     total_documents |-> Len(coll),
     documents |-> [i \in 1..Len(coll) |->
                      [id |-> coll[i].id, metadata |-> coll[i].metadata,
                       document |-> coll[i].document]]]

\* export_collection_to_json: a name that is no collection, or a failing
\* collection.get or file write, raises to the caller; otherwise the
\* snapshot is written and its path returned.
ExportCollectionToJson(collection_name, failed) ==
    /\ Idle
    /\ LET valid == collection_name \in {"patients", "conversations"}
           coll == IF collection_name = "patients" THEN patients
                   ELSE conversations
       IN  last' = IF ~valid \/ failed
                   THEN [op |-> "export_collection_to_json",
                         arg |-> collection_name, failed |-> failed,
                         raised |-> TRUE, ret |-> None, written |-> None]
                   ELSE [op |-> "export_collection_to_json",
                         arg |-> collection_name, failed |-> failed,
                         raised |-> FALSE,
                         ret |-> <<"exports", collection_name, IsoFormat(now)>>,
                         written |-> ExportData(collection_name, coll, now)]
    /\ UNCHANGED <<conversations, patients, now, running>>

---------------------------------------------------------------------------
(* The system *)

\* The caller takes the result of its call; the next call may start.
Return ==
    /\ ~Idle
    /\ last' = [op |-> "idle"]
    /\ UNCHANGED <<conversations, patients, now, running>>

\* Time passes between two calls.
Tick ==
    /\ Idle
    /\ now < MaxClock
    /\ now' = now + 1
    /\ UNCHANGED <<conversations, patients, last, running>>

Init ==
    /\ conversations = <<>>
    /\ patients = <<>>
    /\ now = 0
    /\ last = [op |-> "idle"]
    /\ running = <<>>

Next ==
    \/ \E pd \in PatientData, fault \in StoreFaults : StorePatientData(pd, fault)
    \/ \E failed \in BOOLEAN : SearchSimilarPatients(failed)
    \/ \E n \in SearchNames, failed \in BOOLEAN : SearchByPatientName(n, failed)
    \/ \E s \in SearchSymptoms, failed \in BOOLEAN : SearchBySymptoms(s, failed)
    \/ \E failed \in BOOLEAN : SearchByDiagnosis(failed)
    \/ \E r \in SearchDates, failed \in BOOLEAN : SearchByDateRange(r, failed)
    \/ \E p \in SearchPriorities, failed \in BOOLEAN : SearchByPriorityLevel(p, failed)
    \/ \E p \in SearchPromoters, failed \in BOOLEAN : SearchByPromoter(p, failed)
    \/ \E f \in SearchFilters, n \in {1, DefaultNResults}, failed \in BOOLEAN :
          SearchComplexQuery(f, n, failed)
    \/ \E failed \in BOOLEAN : SearchHighPriorityPatients(failed)
    \/ \E n \in SearchNames, failed \in BOOLEAN : GetPatientSummary(n, failed)
    \/ \E failed \in BOOLEAN : GetCollectionStats(failed)
    \/ \E c \in CollectionNames, failed \in BOOLEAN :
          ExportCollectionToJson(c, failed)
    \/ Return
    \/ Tick

Spec == Init /\ [][Next]_vars

---------------------------------------------------------------------------
(* Concurrent ingestions: store_patient_data calls of several request       *)
(* handlers, interleaved at their collection calls.  Nothing in the code    *)
(* serializes them.                                                         *)

Procs == {1, 2}

Other(p) == 3 - p

\* A record ingested before the concurrent calls start.
Seed ==
    [name |-> Ana, age |-> NoInt,
     conversation_id |-> Conv1, symptoms |-> <<Fiebre>>,
     medications |-> <<>>, conversation_date |-> None, promoter_id |-> P1,
     priority_level |-> Alta, follow_up_needed |-> FALSE]

\* What the concurrent calls are given.
ConcPatientData == {pd \in PatientData : pd.name \in {Ana, None}}

\* Variant: the write looks at the collection again instead of using what
\* the presence check saw.
ProfileWriteRechecks(pats, saw_existing, patient_id, metadata, document) ==
    IF patient_id \in CollIds(pats)
    THEN [op |-> "update"] @@ CollUpdate(pats, patient_id, metadata, document)
    ELSE [op |-> "add"] @@ CollAdd(pats, patient_id, metadata, document)

\* Variant: an add that the collection does not refuse for an id it holds.
ProfileWriteAppends(pats, saw_existing, patient_id, metadata, document) ==
    IF saw_existing
    THEN [op |-> "update"] @@ CollUpdate(pats, patient_id, metadata, document)
    ELSE [op |-> "add", ok |-> TRUE,
          coll |-> Append(pats, [id |-> patient_id, metadata |-> metadata,
                                 document |-> document])]

\* Variant: the write is an update whatever the presence check saw.
ProfileWriteAlwaysUpdates(pats, saw_existing, patient_id, metadata, document) ==
    [op |-> "update"] @@ CollUpdate(pats, patient_id, metadata, document)

\* The write after the presence check: an update when the check saw a
\* profile, an add otherwise.
ProfileWrite(pats, saw_existing, patient_id, metadata, document) ==
    IF saw_existing
    THEN [op |-> "update"] @@ CollUpdate(pats, patient_id, metadata, document)
    ELSE [op |-> "add"] @@ CollAdd(pats, patient_id, metadata, document)

\* The call starts: the id, the document and the metadata are computed.
ConcBegin(p, patient_data) ==
    /\ running[p].pc = "start"
    /\ running' = [running EXCEPT ![p] =
                     [pc |-> "add", arg |-> patient_data,
                      doc_id |-> GenerateId(patient_data, now),
                      metadata |-> ConversationMetadata(patient_data, now),
                      document |-> GenerateEmbeddingText(patient_data)]]
    /\ UNCHANGED <<conversations, patients, now, last>>

\* conversations_collection.add; its exception ends the call.
ConcAddConversation(p) ==
    /\ running[p].pc = "add"
    /\ LET r == running[p]
           added == CollAdd(conversations, r.doc_id, r.metadata, r.document)
       IN  /\ conversations' = added.coll
           /\ running' = [running EXCEPT ![p] =
                            [pc |-> IF added.ok THEN "summary" ELSE "raised"]
                            @@ r]
    /\ UNCHANGED <<patients, now, last>>

\* store_patient_summary up to the presence check: nothing to do without a
\* name, otherwise the profile is built and patients_collection.get is called.
ConcCheckProfile(p) ==
    /\ running[p].pc = "summary"
    /\ LET r == running[p]
           patient_id == PatientId(r.arg.name)
       IN  running' = [running EXCEPT ![p] =
              IF ~Truthy(r.arg.name)
              THEN [pc |-> "done", wrote |-> FALSE] @@ r
              ELSE [pc |-> "write", patient_id |-> patient_id,
                    profile_metadata |-> PatientMetadata(r.arg, now),
                    profile_document |-> SummaryText(r.arg),
                    saw_existing |-> CollGet(patients, {patient_id}) # <<>>]
                   @@ r]
    /\ UNCHANGED <<conversations, patients, now, last>>

\* The update or the add of the profile; an exception is caught and printed,
\* and the call returns the document id.
ConcWriteProfile(p) ==
    /\ running[p].pc = "write"
    /\ LET r == running[p]
           res == ProfileWrite(patients, r.saw_existing, r.patient_id,
                               r.profile_metadata, r.profile_document)
       IN  /\ patients' = res.coll
           /\ running' = [running EXCEPT ![p] =
                 [pc |-> "done", wrote |-> TRUE, op |-> res.op, ok |-> res.ok,
                  \* the other call had checked and not yet written
                  raced |-> running[Other(p)].pc = "write",
                  \* the other call had already written
                  second |-> running[Other(p)].pc = "done"
                                /\ running[Other(p)].wrote] @@ r]
    /\ UNCHANGED <<conversations, now, last>>

\* The store is empty, or holds what one earlier ingestion left.
ConcInit ==
    /\ \E seeded \in BOOLEAN :
          LET id == GenerateId(Seed, 0)
          IN  IF seeded
              THEN /\ conversations
                        = CollAdd(<<>>, id, ConversationMetadata(Seed, 0),
                                  GenerateEmbeddingText(Seed)).coll
                   /\ patients
                        = StorePatientSummary(<<>>, Seed, id, "none", 0).patients
              ELSE /\ conversations = <<>>
                   /\ patients = <<>>
    /\ now = 0
    /\ last = [op |-> "idle"]
    /\ running = [p \in Procs |-> [pc |-> "start"]]

ConcNext ==
    \/ \E p \in Procs, pd \in ConcPatientData : ConcBegin(p, pd)
    \/ \E p \in Procs : ConcAddConversation(p)
    \/ \E p \in Procs : ConcCheckProfile(p)
    \/ \E p \in Procs : ConcWriteProfile(p)
    \/ Tick

ConcSpec == ConcInit /\ [][ConcNext]_vars

---------------------------------------------------------------------------
(* Summaries of a long history: ingestions one per instant, of a patient    *)
(* and of a patient whose name contains the first's, and summaries between  *)
(* them.                                                                    *)

\* What the k-th ingestion is given.
Visit(k) ==
    [Seed EXCEPT !.name = IF k % 2 = 0 THEN AnaMaria ELSE Ana,
                 !.conversation_id = IF k % 3 = 0 THEN Conv2 ELSE Conv1,
                 !.symptoms = IF k % 3 = 0 THEN <<Tos>> ELSE <<Fiebre>>,
                 !.follow_up_needed = (k % 5 = 0)]

\* The next ingestion, an instant after the last one: store_patient_data
\* with nothing failing.
IngestVisit ==
    /\ Idle
    /\ Len(conversations) < SummaryNResults + MaxExcess
    /\ LET t == now + 1
           stored == StoreResult(conversations, patients, Visit(t), "none", t)
       IN  /\ conversations' = stored.conversations
           /\ patients' = stored.patients
           /\ now' = t
           /\ last' = [op |-> "store_patient_data", arg |-> Visit(t),
                       raised |-> stored.raised, ret |-> stored.ret,
                       doc_id |-> stored.doc_id,
                       had_profile |-> stored.had_profile,
                       calls |-> stored.calls]
    /\ UNCHANGED running

SummaryNext ==
    \/ IngestVisit
    \/ \E n \in SearchNames, failed \in BOOLEAN : GetPatientSummary(n, failed)
    \/ Return

SummarySpec == Init /\ [][SummaryNext]_vars

---------------------------------------------------------------------------
(* The lists of strings of the metadata, written by store_patient_data with *)
(* json.dumps and read by get_patient_summary with json.loads.              *)

JsonChars == {"a", ",", Quote, Backslash, AAcute}

\* The strings of at most n characters.
RECURSIVE StringsUpTo(_)
StringsUpTo(n) ==
    IF n = 0 THEN {<<>>}
    ELSE StringsUpTo(n - 1)
         \cup {Append(s, c) : s \in StringsUpTo(n - 1), c \in JsonChars}

\* Symptoms as extracted, and strings that look like JSON text themselves.
JsonTokens ==
    StringsUpTo(MaxStrLen)
    \cup {Fiebre, <<Quote, ",", " ", Quote>>, <<Backslash, Quote>>, <<"]">>,
          AAcuteEscape}

\* The lists of at most n tokens.
RECURSIVE ListsUpTo(_)
ListsUpTo(n) ==
    IF n = 0 THEN {<<>>}
    ELSE ListsUpTo(n - 1)
         \cup {Append(l, s) : l \in ListsUpTo(n - 1), s \in JsonTokens}

\* A list of symptoms, medications, allergies or chronic conditions is given.
RoundTripInit ==
    /\ conversations = <<>>
    /\ patients = <<>>
    /\ now = 0
    /\ running = <<>>
    /\ \E l \in ListsUpTo(MaxItems) : last = [op |-> "given", list |-> l]

\* store_patient_data serializes the list for the metadata.
Serialize ==
    /\ last.op = "given"
    /\ last' = [op |-> "serialized", list |-> last.list,
                text |-> JsonDumps(last.list)]
    /\ UNCHANGED <<conversations, patients, now, running>>

\* get_patient_summary deserializes the text of the metadata.
Deserialize ==
    /\ last.op = "serialized"
    /\ last' = [op |-> "deserialized", list |-> last.list, text |-> last.text,
                loaded |-> JsonLoads(last.text)]
    /\ UNCHANGED <<conversations, patients, now, running>>

RoundTripNext == Serialize \/ Deserialize

RoundTripSpec == RoundTripInit /\ [][RoundTripNext]_vars

---------------------------------------------------------------------------
(* Text: str.lower, str.title, str.strip, str.split and the regular        *)
(* expressions of TranscriptionService, on sequences of characters.        *)

LowerLetters ==
    <<"a", "b", "c", "d", "e", "f", "g", "h", "i", "j", "k", "l", "m", "n",
      "o", "p", "q", "r", "s", "t", "u", "v", "w", "x", "y", "z", "ñ", "á",
      "é", "í", "ó", "ú", "ü">>

UpperLetters ==
    <<"A", "B", "C", "D", "E", "F", "G", "H", "I", "J", "K", "L", "M", "N",
      "O", "P", "Q", "R", "S", "T", "U", "V", "W", "X", "Y", "Z", "Ñ", "Á",
      "É", "Í", "Ó", "Ú", "Ü">>

IsLower(c) == \E i \in 1..Len(LowerLetters) : LowerLetters[i] = c
IsUpper(c) == \E i \in 1..Len(UpperLetters) : UpperLetters[i] = c
IsLetter(c) == IsLower(c) \/ IsUpper(c)
IsDigit(c) == \E i \in 1..Len(DigitChars) : DigitChars[i] = c

\* \w and \s of a pattern
IsWordChar(c) == IsLetter(c) \/ IsDigit(c) \/ c = "_"
IsSpace(c) == c = " "

ToLower(c) ==
    IF IsUpper(c)
    THEN LowerLetters[CHOOSE i \in 1..Len(UpperLetters) : UpperLetters[i] = c]
    ELSE c

ToUpper(c) ==
    IF IsLower(c)
    THEN UpperLetters[CHOOSE i \in 1..Len(LowerLetters) : LowerLetters[i] = c]
    ELSE c

\* s.lower()
Lower(s) == [i \in 1..Len(s) |-> ToLower(s[i])]

\* Variant: the text is left in the case it has.
TitleKeepsCase(s) == s

\* s.title(): a letter that follows no letter is made upper case, a letter
\* that follows a letter lower case.
Title(s) ==
    [i \in 1..Len(s) |->
        IF i > 1 /\ IsLetter(s[i - 1]) THEN ToLower(s[i]) ELSE ToUpper(s[i])]

\* s.strip()
Strip(s) ==
    LET kept == {i \in 1..Len(s) : ~IsSpace(s[i])}
    IN  IF kept = {} THEN <<>>
        ELSE SubSeq(s, CHOOSE i \in kept : \A j \in kept : i <= j,
                       CHOOSE i \in kept : \A j \in kept : j <= i)

\* len(s.split())
WordCount(s) ==
    Cardinality({i \in 1..Len(s) :
                    ~IsSpace(s[i]) /\ (i = 1 \/ IsSpace(s[i - 1]))})

\* The literal lit stands in s at position i.
StartsWithAt(s, i, lit) ==
    /\ i >= 1
    /\ i + Len(lit) - 1 <= Len(s)
    /\ SubSeq(s, i, i + Len(lit) - 1) = lit

\* The character classes of the patterns: "w" for \w, "s" for \s, "d" for \d.
InClass(c, class) ==
    CASE class = "w" -> IsWordChar(c)
      [] class = "s" -> IsSpace(c)
      [] class = "d" -> IsDigit(c)

\* The last position of the longest run of characters of one class that
\* starts at position i; i - 1 when there is none.
RunEnd(s, i, class) ==
    CHOOSE j \in (i - 1)..Len(s) :
        /\ \A k \in i..j : InClass(s[k], class)
        /\ j = Len(s) \/ ~InClass(s[j + 1], class)

LeastOf(positions) == CHOOSE i \in positions : \A j \in positions : i <= j

\* int(digits)
RECURSIVE ToInt(_)
ToInt(digits) ==
    IF digits = <<>> THEN 0
    ELSE 10 * ToInt(SubSeq(digits, 1, Len(digits) - 1))
         + (CharOrd(digits[Len(digits)]) - 1)

---------------------------------------------------------------------------
(* TranscriptionService: the extraction of the patient's data from the     *)
(* text of a transcript.                                                   *)

\* The literal part of each name pattern; each is followed by the group
\* (\w+(?:\s+\w+)*).
IntroPatterns ==
    << <<"m", "i", " ", "n", "o", "m", "b", "r", "e", " ", "e", "s", " ">>,
       <<"m", "e", " ", "l", "l", "a", "m", "o", " ">>,
       <<"s", "o", "y", " ">>,
       <<"p", "a", "c", "i", "e", "n", "t", "e", " ">>,
       <<"s", "e", "ñ", "o", "r", " ">>,
       <<"s", "e", "ñ", "o", "r", "a", " ">> >>

\* The words of the first cleaning pattern, \s+(tengo|tiene|años|edad|\d+).*$
CutWords ==
    {  <<"t", "e", "n", "g", "o">>,
       <<"t", "i", "e", "n", "e">>,
       <<"a", "ñ", "o", "s">>,
       <<"e", "d", "a", "d">> }

\* The words of the second cleaning pattern, \b(y|desde|...)\b
StopWords ==
    {  <<"y">>,
       <<"d", "e", "s", "d", "e">>,
       <<"h", "a", "c", "e">>,
       <<"t", "r", "e", "s">>,
       <<"d", "í", "a", "s">>,
       <<"t", "e", "n", "g", "o">>,
       <<"f", "i", "e", "b", "r", "e">>,
       <<"d", "o", "l", "o", "r">>,
       <<"c", "a", "b", "e", "z", "a">>,
       <<"t", "o", "s">> }

\* The end of the longest match of \w+(?:\s+\w+)* that starts at position i,
\* where a word character stands.
RECURSIVE WordsEnd(_, _)
WordsEnd(s, i) ==
    LET e == RunEnd(s, i, "w")
        sp == RunEnd(s, e + 1, "s")
    IN  IF sp > e /\ sp < Len(s) /\ IsWordChar(s[sp + 1])
        THEN WordsEnd(s, sp + 1)
        ELSE e

\* re.search of a name pattern: the group of the leftmost match, or None.
SearchIntro(text, prefix) ==
    LET starts == {i \in 1..Len(text) :
                      /\ StartsWithAt(text, i, prefix)
                      /\ i + Len(prefix) <= Len(text)
                      /\ IsWordChar(text[i + Len(prefix)])}
    IN  IF starts = {} THEN None
        ELSE LET b == LeastOf(starts) + Len(prefix)
             IN  SubSeq(text, b, WordsEnd(text, b))

\* re.sub(r'\s+(tengo|tiene|años|edad|\d+).*$', '', name): the name is cut
\* at the first white space that one of the words or a digit follows.
CutTail(name) ==
    LET cuts == {i \in 1..Len(name) :
                    /\ IsSpace(name[i])
                    /\ LET e == RunEnd(name, i, "s")
                       IN  /\ e < Len(name)
                           /\ \/ IsDigit(name[e + 1])
                              \/ \E w \in CutWords : StartsWithAt(name, e + 1, w)}
    IN  IF cuts = {} THEN name ELSE SubSeq(name, 1, LeastOf(cuts) - 1)

\* re.sub(r'\b(y|desde|...|tos)\b', '', name) from position i on: each of the
\* words, standing as a whole word, is taken out.
RECURSIVE RemoveStopWords(_, _)
RemoveStopWords(s, i) ==
    IF i > Len(s) THEN <<>>
    ELSE LET hit == {w \in StopWords :
                        /\ i = 1 \/ ~IsWordChar(s[i - 1])
                        /\ StartsWithAt(s, i, w)
                        /\ i + Len(w) > Len(s) \/ ~IsWordChar(s[i + Len(w)])}
         IN  IF hit # {}
             THEN RemoveStopWords(s, i + Len(CHOOSE w \in hit : TRUE))
             ELSE <<s[i]>> \o RemoveStopWords(s, i + 1)

\* The name made of the group of a match.
CleanName(group) ==
    Strip(RemoveStopWords(Strip(CutTail(Title(group))), 1))

\* The loop over the patterns: the first pattern that matches and whose
\* cleaned name has more than 2 characters and at most 4 words gives the name.
RECURSIVE NameFrom(_, _)
NameFrom(text, patterns) ==
    IF patterns = <<>> THEN None
    ELSE LET group == SearchIntro(Lower(text), Head(patterns))
         IN  IF group = None THEN NameFrom(text, Tail(patterns))
             ELSE IF Len(CleanName(group)) > 2 /\ WordCount(CleanName(group)) <= 4
                  THEN CleanName(group)
                  ELSE NameFrom(text, Tail(patterns))

\* _extract_patient_name
ExtractPatientName(text) == NameFrom(text, IntroPatterns)

\* The age patterns (\d+)\s*años, edad\s*(\d+), tengo\s*(\d+)\s*años and
\* tiene\s*(\d+)\s*años: what stands before the digits and what after them.
AgePatterns ==
    <<[prefix |-> <<>>, suffix |-> <<"a", "ñ", "o", "s">>],
      [prefix |-> <<"e", "d", "a", "d">>, suffix |-> <<>>],
      [prefix |-> <<"t", "e", "n", "g", "o">>,
       suffix |-> <<"a", "ñ", "o", "s">>],
      [prefix |-> <<"t", "i", "e", "n", "e">>,
       suffix |-> <<"a", "ñ", "o", "s">>]>>

\* Where the digits of a match that starts at position i start.
DigitsStart(text, i, pattern) ==
    IF pattern.prefix = <<>> THEN i
    ELSE RunEnd(text, i + Len(pattern.prefix), "s") + 1

\* re.search of an age pattern: the digits of the leftmost match, or None.
SearchAge(text, pattern) ==
    LET starts ==
          {i \in 1..Len(text) :
              /\ StartsWithAt(text, i, pattern.prefix)
              /\ LET d == DigitsStart(text, i, pattern)
                 IN  /\ d <= Len(text)
                     /\ IsDigit(text[d])
                     /\ \/ pattern.suffix = <<>>
                        \/ StartsWithAt(text,
                              RunEnd(text, RunEnd(text, d, "d") + 1, "s") + 1,
                              pattern.suffix)}
    IN  IF starts = {} THEN None
        ELSE LET d == DigitsStart(text, LeastOf(starts), pattern)
             IN  SubSeq(text, d, RunEnd(text, d, "d"))

\* The loop over the age patterns: the first pattern that matches with an
\* age between 1 and 119 gives the age.
RECURSIVE AgeFrom(_, _)
AgeFrom(text, patterns) ==
    IF patterns = <<>> THEN NoInt
    ELSE LET digits == SearchAge(Lower(text), Head(patterns))
         IN  IF digits = None THEN AgeFrom(text, Tail(patterns))
             ELSE IF 0 < ToInt(digits) /\ ToInt(digits) < 120
                  THEN Int(ToInt(digits))
                  ELSE AgeFrom(text, Tail(patterns))

\* _extract_age
ExtractAge(text) == AgeFrom(text, AgePatterns)

MaleWords ==
    {  <<"h", "o", "m", "b", "r", "e">>,
       <<"m", "a", "s", "c", "u", "l", "i", "n", "o">>,
       <<"v", "a", "r", "ó", "n">>,
       <<"s", "e", "ñ", "o", "r">> }

FemaleWords ==
    {  <<"m", "u", "j", "e", "r">>,
       <<"f", "e", "m", "e", "n", "i", "n", "o">>,
       <<"s", "e", "ñ", "o", "r", "a">>,
       <<"d", "a", "m", "a">> }

Masculino == <<"m", "a", "s", "c", "u", "l", "i", "n", "o">>
Femenino == <<"f", "e", "m", "e", "n", "i", "n", "o">>

\* _extract_gender
ExtractGender(text) ==
    IF \E w \in MaleWords : Contains(w, Lower(text)) THEN Masculino
    ELSE IF \E w \in FemaleWords : Contains(w, Lower(text)) THEN Femenino
    ELSE None

\* symptoms_keywords: each category with its keywords, in the order of
\* the dict.
SymptomKeywords ==
    <<[category |->
           <<"f", "i", "e", "b", "r", "e">>,
       keywords |->
           {<<"f", "i", "e", "b", "r", "e">>,
            <<"t", "e", "m", "p", "e", "r", "a", "t", "u", "r", "a", " ",
              "a", "l", "t", "a">>,
            <<"c", "a", "l", "o", "r">>}],
      [category |->
           <<"d", "o", "l", "o", "r", " ", "d", "e", " ", "c", "a", "b", "e", "z", "a">>,
       keywords |->
           {<<"d", "o", "l", "o", "r", " ", "d", "e", " ", "c", "a", "b",
              "e", "z", "a">>,
            <<"m", "i", "g", "r", "a", "ñ", "a">>,
            <<"c", "e", "f", "a", "l", "e", "a">>}],
      [category |->
           <<"t", "o", "s">>,
       keywords |->
           {<<"t", "o", "s">>,
            <<"t", "o", "s", " ", "s", "e", "c", "a">>,
            <<"t", "o", "s", " ", "c", "o", "n", " ", "f", "l", "e", "m", "a">>}],
      [category |->
           <<"d", "o", "l", "o", "r", " ", "d", "e", " ", "g", "a", "r", "g", "a", "n", "t", "a">>,
       keywords |->
           {<<"d", "o", "l", "o", "r", " ", "d", "e", " ", "g", "a", "r",
              "g", "a", "n", "t", "a">>,
            <<"i", "r", "r", "i", "t", "a", "c", "i", "ó", "n", " ", "d",
              "e", " ", "g", "a", "r", "g", "a", "n", "t", "a">>}],
      [category |->
           <<"n", "á", "u", "s", "e", "a", "s">>,
       keywords |->
           {<<"n", "á", "u", "s", "e", "a", "s">>,
            <<"n", "a", "u", "s", "e", "a", "s">>,
            <<"g", "a", "n", "a", "s", " ", "d", "e", " ", "v", "o", "m",
              "i", "t", "a", "r">>}],
      [category |->
           <<"v", "ó", "m", "i", "t", "o", "s">>,
       keywords |->
           {<<"v", "ó", "m", "i", "t", "o", "s">>,
            <<"v", "o", "m", "i", "t", "o", "s">>,
            <<"v", "o", "m", "i", "t", "a", "r">>}],
      [category |->
           <<"d", "i", "a", "r", "r", "e", "a">>,
       keywords |->
           {<<"d", "i", "a", "r", "r", "e", "a">>,
            <<"d", "o", "l", "o", "r", " ", "d", "e", " ", "e", "s", "t",
              "ó", "m", "a", "g", "o">>}],
      [category |->
           <<"f", "a", "t", "i", "g", "a">>,
       keywords |->
           {<<"f", "a", "t", "i", "g", "a">>,
            <<"c", "a", "n", "s", "a", "n", "c", "i", "o">>,
            <<"a", "g", "o", "t", "a", "m", "i", "e", "n", "t", "o">>}],
      [category |->
           <<"d", "o", "l", "o", "r", " ", "m", "u", "s", "c", "u", "l", "a", "r">>,
       keywords |->
           {<<"d", "o", "l", "o", "r", " ", "m", "u", "s", "c", "u", "l",
              "a", "r">>,
            <<"d", "o", "l", "o", "r", "e", "s", " ", "e", "n", " ", "e",
              "l", " ", "c", "u", "e", "r", "p", "o">>}],
      [category |->
           <<"p", "é", "r", "d", "i", "d", "a", " ", "d", "e", " ", "a", "p", "e", "t", "i", "t", "o">>,
       keywords |->
           {<<"p", "é", "r", "d", "i", "d", "a", " ", "d", "e", " ", "a",
              "p", "e", "t", "i", "t", "o">>,
            <<"n", "o", " ", "t", "e", "n", "g", "o", " ", "h", "a", "m",
              "b", "r", "e">>}],
      [category |->
           <<"d", "i", "f", "i", "c", "u", "l", "t", "a", "d", " ", "p", "a", "r", "a", " ", "r", "e", "s", "p", "i", "r", "a", "r">>,
       keywords |->
           {<<"d", "i", "f", "i", "c", "u", "l", "t", "a", "d", " ", "p",
              "a", "r", "a", " ", "r", "e", "s", "p", "i", "r", "a", "r">>,
            <<"f", "a", "l", "t", "a", " ", "d", "e", " ", "a", "i", "r", "e">>}],
      [category |->
           <<"d", "o", "l", "o", "r", " ", "e", "n", " ", "e", "l", " ", "p", "e", "c", "h", "o">>,
       keywords |->
           {<<"d", "o", "l", "o", "r", " ", "e", "n", " ", "e", "l", " ",
              "p", "e", "c", "h", "o">>,
            <<"d", "o", "l", "o", "r", " ", "d", "e", " ", "p", "e", "c",
              "h", "o">>}]>>

\* _extract_symptoms: the categories one of whose keywords the text contains
ExtractSymptoms(text) ==
    LET found == SelectSeq(SymptomKeywords,
                           LAMBDA e : \E k \in e.keywords :
                                         Contains(k, Lower(text)))
    IN  [i \in 1..Len(found) |-> found[i].category]

MedicationKeywords ==
    << <<"p", "a", "r", "a", "c", "e", "t", "a", "m", "o", "l">>,
       <<"a", "c", "e", "t", "a", "m", "i", "n", "o", "f", "é", "n">>,
       <<"a", "c", "e", "t", "a", "m", "i", "n", "o", "f", "e", "n">>,
       <<"i", "b", "u", "p", "r", "o", "f", "e", "n", "o">>,
       <<"a", "s", "p", "i", "r", "i", "n", "a">>,
       <<"a", "n", "t", "i", "b", "i", "ó", "t", "i", "c", "o">>,
       <<"a", "n", "t", "i", "b", "i", "o", "t", "i", "c", "o">>,
       <<"m", "e", "d", "i", "c", "a", "m", "e", "n", "t", "o">>,
       <<"p", "a", "s", "t", "i", "l", "l", "a">>,
       <<"t", "a", "b", "l", "e", "t", "a">>,
       <<"c", "á", "p", "s", "u", "l", "a">>,
       <<"c", "a", "p", "s", "u", "l", "a">>,
       <<"j", "a", "r", "a", "b", "e">>,
       <<"g", "o", "t", "a", "s">>,
       <<"i", "n", "y", "e", "c", "c", "i", "ó", "n">>,
       <<"i", "n", "y", "e", "c", "c", "i", "o", "n">> >>

\* _extract_medications
ExtractMedications(text) ==
    SelectSeq(MedicationKeywords, LAMBDA m : Contains(m, Lower(text)))

HighPrioritySymptoms ==
    {  <<"d", "i", "f", "i", "c", "u", "l", "t", "a", "d", " ", "p", "a",
         "r", "a", " ", "r", "e", "s", "p", "i", "r", "a", "r">>,
       <<"d", "o", "l", "o", "r", " ", "e", "n", " ", "e", "l", " ", "p",
         "e", "c", "h", "o">>,
       <<"p", "é", "r", "d", "i", "d", "a", " ", "d", "e", " ", "c", "o",
         "n", "s", "c", "i", "e", "n", "c", "i", "a">>,
       <<"s", "a", "n", "g", "r", "a", "d", "o">>,
       <<"t", "r", "a", "u", "m", "a">>,
       <<"a", "c", "c", "i", "d", "e", "n", "t", "e">> }

MediumPrioritySymptoms ==
    {  <<"f", "i", "e", "b", "r", "e", " ", "a", "l", "t", "a">>,
       <<"d", "o", "l", "o", "r", " ", "i", "n", "t", "e", "n", "s", "o">>,
       <<"v", "ó", "m", "i", "t", "o", "s", " ", "p", "e", "r", "s", "i",
         "s", "t", "e", "n", "t", "e", "s">>,
       <<"d", "i", "a", "r", "r", "e", "a", " ", "s", "e", "v", "e", "r", "a">> }

Media == <<"m", "e", "d", "i", "a">>

\* Variant: the medium-priority keywords are looked for first.
DeterminePriorityMediumFirst(text) ==
    IF \E s \in MediumPrioritySymptoms : Contains(s, Lower(text)) THEN Media
    ELSE IF \E s \in HighPrioritySymptoms : Contains(s, Lower(text))
         THEN Alta
    ELSE Normal

\* _determine_priority
DeterminePriority(text) ==
    IF \E s \in HighPrioritySymptoms : Contains(s, Lower(text)) THEN Alta
    ELSE IF \E s \in MediumPrioritySymptoms : Contains(s, Lower(text))
         THEN Media
    ELSE Normal

FollowUpIndicators ==
    {  <<"q", "u", "i", "e", "r", "o", " ", "s", "a", "b", "e", "r">>,
       <<"n", "e", "c", "e", "s", "i", "t", "o", " ", "a", "y", "u", "d", "a">>,
       <<"q", "u", "é", " ", "d", "e", "b", "o", " ", "h", "a", "c", "e", "r">>,
       <<"c", "ó", "m", "o", " ", "p", "u", "e", "d", "o">>,
       <<"c", "u", "á", "n", "d", "o", " ", "d", "e", "b", "o">>,
       <<"d", "ó", "n", "d", "e", " ", "d", "e", "b", "o", " ", "i", "r">>,
       <<"c", "o", "n", "s", "u", "l", "t", "a">>,
       <<"c", "i", "t", "a">>,
       <<"s", "e", "g", "u", "i", "m", "i", "e", "n", "t", "o">> }

\* _needs_follow_up
NeedsFollowUp(text) == \E s \in FollowUpIndicators : Contains(s, Lower(text))

\* _generate_conversation_id: "conv_" and the instant
GenerateConversationId(t) == <<"c", "o", "n", "v", "_">> \o IsoFormat(t)

\* extract_patient_info: the empty dict for an empty transcript, otherwise
\* the structured record (the fields that are always None or empty, and the
\* phone, are left out).
ExtractPatientInfo(transcription, t) ==
    IF transcription = <<>> THEN <<>>
    ELSE [conversation_id |-> GenerateConversationId(t),
          full_text |-> transcription,
          name |-> ExtractPatientName(transcription),
          age |-> ExtractAge(transcription),
          gender |-> ExtractGender(transcription),
          symptoms |-> ExtractSymptoms(transcription),
          medications |-> ExtractMedications(transcription),
          promoter_id |-> None,
          conversation_date |-> IsoFormat(t),
          follow_up_needed |-> NeedsFollowUp(transcription),
          priority_level |-> DeterminePriority(transcription)]

---------------------------------------------------------------------------
(* Transcripts: what the transcription of an audio file may say, and the   *)
(* extraction and the ingestion of one transcript.                         *)

Greetings ==
    {  <<"H", "o", "l", "a", ",", " ">>, <<>>}

Introductions ==
    {  <<"m", "i", " ", "n", "o", "m", "b", "r", "e", " ", "e", "s", " ">>,
       <<"m", "e", " ", "l", "l", "a", "m", "o", " ">>,
       <<"s", "o", "y", " ">> }

JuanaDeLaTorre ==
    <<"J", "u", "a", "n", "a", " ", "D", "e", " ", "L", "a", " ", "T", "o",
      "r", "r", "e">>

SpokenNames == {JuanaDeLaTorre, Ana}

SpokenAges ==
    {  <<" ", "t", "e", "n", "g", "o", " ", "4", "5", " ", "a", "ñ", "o", "s">>,
       <<",", " ", "4", "5", " ", "a", "ñ", "o", "s">>,
       <<",", " ", "e", "d", "a", "d", " ", "1", "3", "0">>, <<>>}

Complaints ==
    {  <<",", " ", "t", "e", "n", "g", "o", " ", "f", "i", "e", "b", "r",
         "e", " ", "y", " ", "d", "o", "l", "o", "r", " ", "d", "e", " ",
         "c", "a", "b", "e", "z", "a">>,
       <<" ", "y", " ", "t", "e", "n", "g", "o", " ", "t", "o", "s">>,
       <<",", " ", "d", "o", "l", "o", "r", " ", "e", "n", " ", "e", "l",
         " ", "p", "e", "c", "h", "o">>,
       <<",", " ", "t", "e", "n", "g", "o", " ", "f", "i", "e", "b", "r",
         "e", " ", "a", "l", "t", "a">>,
       <<",", " ", "f", "i", "e", "b", "r", "e", " ", "a", "l", "t", "a",
         " ", "y", " ", "D", "o", "l", "o", "r", " ", "e", "n", " ", "e",
         "l", " ", "p", "e", "c", "h", "o">>, <<>>}

\* A greeting, an introduction with a name, an age and a complaint, each in
\* one of its wordings or left out; and the empty transcript.
Transcripts ==
    {g \o i \o n \o a \o c :
        g \in Greetings, i \in Introductions, n \in SpokenNames,
        a \in SpokenAges, c \in Complaints}
    \cup {<<>>}

\* What store_patient_data reads in the result of the extraction: the fields
\* of the record, or the defaults of its .get calls on the empty dict.
PatientDataOf(extracted) ==
    IF DOMAIN extracted = {}
    THEN [conversation_id |-> <<>>, full_text |-> <<>>, name |-> <<>>,
          age |-> NoInt, gender |-> None, symptoms |-> <<>>,
          medications |-> <<>>, promoter_id |-> None,
          conversation_date |-> None, follow_up_needed |-> FALSE,
          priority_level |-> None]
    ELSE extracted

\* A call of extract_patient_info.
ExtractCall(transcription) ==
    /\ Idle
    /\ last' = [op |-> "extract_patient_info", arg |-> transcription,
                ret |-> ExtractPatientInfo(transcription, now)]
    /\ UNCHANGED <<conversations, patients, now, running>>

\* The ingestion of a transcript: extract_patient_info, then
\* store_patient_data on its result.
IngestTranscript(transcription) ==
    StorePatientData(PatientDataOf(ExtractPatientInfo(transcription, now)),
                     "none")

---------------------------------------------------------------------------
(* POST /process-audio *)

\* What the transcription model hands back for an audio file, before
\* transcribe_audio strips it: a text after a blank, silence, nothing.
Heard ==
    {  <<" ", "H", "o", "l", "a", ",", " ", "s", "o", "y", " ", "A", "n",
         "a", ",", " ", "4", "5", " ", "a", "ñ", "o", "s", ",", " ", "t",
         "e", "n", "g", "o", " ", "f", "i", "e", "b", "r", "e", " ", "a",
         "l", "t", "a">>,
       <<" ", "m", "e", " ", "l", "l", "a", "m", "o", " ", "J", "u", "a",
         "n", "a", " ", "D", "e", " ", "L", "a", " ", "T", "o", "r", "r",
         "e", " ", "y", " ", "t", "e", "n", "g", "o", " ", "t", "o", "s">>,
       <<" ">>,
       <<>>}

\* The patient_name form field: absent, or a name sent by the bot.
FormNames == {None, <<" ">> \o AnaMaria \o <<" ">>}

\* Where the request may fail: writing the uploaded file, the transcription,
\* or one of the calls of the store.
EndpointFaults == StoreFaults \cup {"file.write", "transcribe_audio"}

UnsupportedType ==
    <<"T", "i", "p", "o", " ", "d", "e", " ", "a", "r", "c", "h", "i", "v",
      "o", " ", "n", "o", " ", "s", "o", "p", "o", "r", "t", "a", "d", "o">>

\* str(KeyError('patient_info'))
KeyErrorText ==
    <<"'", "p", "a", "t", "i", "e", "n", "t", "_", "i", "n", "f", "o", "'">>

Paciente == <<"P", "a", "c", "i", "e", "n", "t", "e">>

\* str(e) of the exception raised at a fault: some text that names it.
ExceptionText(fault) == <<fault>>

ProcessAudioResponse(success, message, file_saved, patient_name, vector_id, error) ==
    [success |-> success, message |-> message, file_saved |-> file_saved,
     patient_name |-> patient_name, vector_id |-> vector_id, error |-> error]

\* process_audio_direct, the whole request: the file-type check, the saving
\* of the file, transcribe_audio, extract_patient_info, the override of the
\* name, store_patient_data, and the response built on each way out.  Both
\* try blocks catch every exception, so nothing is raised to the caller.
ProcessAudio(file_ok, heard, patient_name, fault) ==
    /\ Idle
    /\ Len(conversations) < MaxConvs
    /\ LET transcription == Strip(heard)
           extracted == ExtractPatientInfo(transcription, now)
           override == Truthy(patient_name)
           key_error == override /\ DOMAIN extracted = {}
           patient_data ==
               IF override
               THEN [PatientDataOf(extracted) EXCEPT !.name = Strip(patient_name)]
               ELSE PatientDataOf(extracted)
           stored == StoreResult(conversations, patients, patient_data,
                                 fault, now)
           called == file_ok /\ fault \notin {"file.write", "transcribe_audio"}
                     /\ ~key_error
           response_patient_name ==
               IF DOMAIN extracted = {} THEN Paciente ELSE patient_data.name
           response ==
               IF ~file_ok
               THEN ProcessAudioResponse(FALSE, "Error: Solo se permiten archivos de audio",
                                         FALSE, None, None, UnsupportedType)
               ELSE IF fault = "file.write"
               THEN ProcessAudioResponse(FALSE, "Error procesando el audio",
                                         FALSE, None, None, ExceptionText(fault))
               ELSE IF fault = "transcribe_audio"
               THEN ProcessAudioResponse(FALSE, "Error en la transcripción del audio",
                                         TRUE, None, None, ExceptionText(fault))
               ELSE IF key_error
               THEN ProcessAudioResponse(FALSE, "Error en la transcripción del audio",
                                         TRUE, None, None, KeyErrorText)
               ELSE IF stored.raised
               THEN ProcessAudioResponse(FALSE, "Error en la transcripción del audio",
                                         TRUE, None, None,
                                         ExceptionText("conversations.add"))
               ELSE ProcessAudioResponse(TRUE, "guardado exitosamente", TRUE,
                                         response_patient_name, stored.ret, None)
       IN  /\ conversations' = IF called THEN stored.conversations
                               ELSE conversations
           /\ patients' = IF called THEN stored.patients ELSE patients
           /\ last' = [op |-> "process_audio", file_ok |-> file_ok,
                       heard |-> heard, patient_name |-> patient_name,
                       fault |-> fault, raised |-> FALSE,
                       key_error |-> file_ok /\ key_error
                                     /\ fault \notin {"file.write", "transcribe_audio"},
                       store |-> IF called
                                 THEN [called |-> TRUE, raised |-> stored.raised,
                                       ret |-> stored.ret]
                                 ELSE [called |-> FALSE, raised |-> FALSE,
                                       ret |-> None],
                       ret |-> response]
    /\ UNCHANGED <<now, running>>

ExtractNext ==
    \/ \E t \in Transcripts : ExtractCall(t)
    \/ \E t \in Transcripts : IngestTranscript(t)
    \/ \E file_ok \in BOOLEAN, heard \in Heard, patient_name \in FormNames,
          fault \in EndpointFaults :
          ProcessAudio(file_ok, heard, patient_name, fault)

ExtractSpec == Init /\ [][ExtractNext]_vars

---------------------------------------------------------------------------
(* Properties *)

IsStore == last.op = "store_patient_data"
IsSummary == last.op = "get_patient_summary"
SearchOps ==
    {"search_similar_patients", "search_by_patient_name", "search_by_symptoms",
     "search_by_diagnosis", "search_by_date_range", "search_by_priority_level",
     "search_by_promoter", "search_complex_query", "search_high_priority_patients"}

\* The conversation records stored under exactly this patient name.
RecordsOf(name) ==
    SelectSeq(conversations, LAMBDA d : d.metadata.patient_name = name)

\* The calls of the last ingestion that write to the collection coll.
WritesTo(coll) ==
    SelectSeq(last.calls, LAMBDA c : c.coll = coll /\ c.op \in {"add", "update"})

ProfileWith(pats, id) == CHOOSE d \in Range(pats) : d.id = id

\* C1: the patients collection never holds two profiles of one patient name
\* (one identity key), and while every stored conversation record carries the
\* same patient name the patients collection counts at most 1.
C1_OneProfilePerIdentity ==
    /\ \A i, j \in 1..Len(patients) :
          patients[i].metadata.patient_name = patients[j].metadata.patient_name
          => i = j
    /\ \A n \in Names :
          (Truthy(n) /\ Len(RecordsOf(n)) = Len(conversations))
          => CollCount(patients) <= 1

\* C1 witness: two records of the same name are stored and one profile exists.
C1_Witness ==
    /\ Len(RecordsOf(Ana)) = 2
    /\ CollCount(patients) = 1

\* C2: an update of an existing profile by an ingestion leaves its
\* total_conversations one higher than it was.
C2_CounterIncrements ==
    [][\A id \in CollIds(patients) :
          (/\ last'.op = "store_patient_data"
           /\ \E k \in 1..Len(last'.calls) :
                 last'.calls[k] = Call("patients", "update", id, TRUE))
          => ProfileWith(patients', id).metadata.total_conversations
             = ProfileWith(patients, id).metadata.total_conversations + 1]_vars

\* C3 as stated: a successful ingestion, none of whose collection calls failed,
\* adds once to conversations and then writes exactly once to patients, an add
\* when no profile of the key existed and an update otherwise.
C3_ExactlyOneProfileWrite ==
    (IsStore /\ ~last.raised /\ \A k \in 1..Len(last.calls) : last.calls[k].ok)
    => /\ WritesTo("conversations")
            = <<Call("conversations", "add", last.doc_id, TRUE)>>
       /\ Len(WritesTo("patients")) = 1
       /\ WritesTo("patients")[1].op
            = (IF last.had_profile THEN "update" ELSE "add")

\* C3 amended: a successful ingestion adds once to conversations, first, and
\* then makes at most one write call on patients: none when the record has no
\* name or the presence check fails, otherwise exactly one under the key of
\* the name, an add when no profile of that key existed and an update
\* otherwise, whether or not that write succeeds.
C3_ProfileWritesOfIngestion ==
    (IsStore /\ ~last.raised)
    => /\ last.calls[1] = Call("conversations", "add", last.doc_id, TRUE)
       /\ Len(WritesTo("conversations")) = 1
       /\ IF /\ Truthy(last.arg.name)
             /\ \A k \in 1..Len(last.calls) :
                   last.calls[k].op = "get" => last.calls[k].ok
          THEN /\ Len(WritesTo("patients")) = 1
               /\ WritesTo("patients")[1].id = PatientId(last.arg.name)
               /\ WritesTo("patients")[1].op
                    = (IF last.had_profile THEN "update" ELSE "add")
          ELSE WritesTo("patients") = <<>>

\* C3 witness: a successful ingestion updated a profile that existed.
C3_Witness ==
    /\ IsStore /\ ~last.raised /\ last.had_profile
    /\ WritesTo("patients")
         = <<Call("patients", "update", PatientId(last.arg.name), TRUE)>>

\* C4: after an ingestion call, its conversation record is not in the
\* conversations collection while a call of its profile write failed.
C4_AllOrNothing ==
    IsStore
    => ~(/\ last.doc_id \in CollIds(conversations)
         /\ last.calls[1].ok
         /\ \E k \in 1..Len(last.calls) :
               /\ last.calls[k].coll = "patients"
               /\ last.calls[k].op \in {"add", "update"}
               /\ ~last.calls[k].ok)

\* C5: an ingestion call one of whose collection writes failed raises to its
\* caller.
C5_WriteFailurePropagates ==
    (IsStore /\ \E k \in 1..Len(last.calls) :
                   last.calls[k].op \in {"add", "update"} /\ ~last.calls[k].ok)
    => last.raised

\* C6: no search operation raises; a search whose collection query failed
\* returns the empty list, and so does any search on an empty store.
C6_SearchNeverRaises ==
    last.op \in SearchOps
    => /\ ~last.raised
       /\ last.failed => last.ret = <<>>
       /\ conversations = <<>> => last.ret = <<>>

\* C6 witness: a complex search on a non-empty store failed inside the
\* collection and returned the empty list.
C6_Witness ==
    /\ last.op = "search_complex_query"
    /\ last.failed /\ ~last.raised
    /\ conversations # <<>>
    /\ last.ret = <<>>

\* The stored records a filter {priority, promoter_id} asks for.
WantedBy(filters) ==
    SelectSeq(conversations,
              LAMBDA d : /\ Truthy(filters.priority)
                            => d.metadata.priority_level = filters.priority
                         /\ Truthy(filters.promoter_id)
                            => d.metadata.promoter_id = filters.promoter_id)

\* C7: a complex search with a priority and a promoter filter returns only
\* stored records of that priority and that promoter, min(n_results, number
\* of such records) of them, each once: all of them when they are no more
\* than n_results.
C7_FilterConjunction ==
    (last.op = "search_complex_query" /\ ~last.failed)
    => /\ Range(last.ret) \subseteq Range(WantedBy(last.arg))
       /\ Cardinality(Range(last.ret)) = Len(last.ret)
       /\ Len(last.ret) = Min(last.n_results, Len(WantedBy(last.arg)))

\* C7 witness: records (alta, p1) and (alta, p2) are stored and the search
\* for {alta, p1} returned exactly the first.
C7_Witness ==
    /\ last.op = "search_complex_query" /\ ~last.failed
    /\ last.arg = Filters(None, Alta, P1, None)
    /\ Len(conversations) = 2
    /\ conversations[1].metadata.priority_level = Alta
    /\ conversations[1].metadata.promoter_id = P1
    /\ conversations[2].metadata.priority_level = Alta
    /\ conversations[2].metadata.promoter_id = P2
    /\ last.ret = <<conversations[1]>>

\* C8: a summary of a name under which records are stored has all_symptoms
\* equal to the union of the symptom lists of the records of that name and
\* total_conversations equal to their number.
C8_SummaryUnionAndCount ==
    (IsSummary /\ ~last.failed /\ RecordsOf(last.arg) # <<>>)
    => /\ last.ret.found
       /\ last.ret.total_conversations = Len(RecordsOf(last.arg))
       /\ last.ret.all_symptoms
            = UNION {Range(JsonLoads(d.metadata.symptoms_list)) :
                     d \in Range(RecordsOf(last.arg))}

\* C9: a summary merges only conversation records whose patient name is the
\* requested name.
C9_SummaryOnlySameIdentity ==
    (IsSummary /\ last.ret.found)
    => \A d \in Range(last.ret.conversations) :
          /\ d.metadata.patient_name = last.arg
          /\ PatientId(d.metadata.patient_name) = PatientId(last.arg)

\* C10: in a summary that found records, conversation_dates is ascending and
\* holds the date of every matched record, first_conversation and
\* last_conversation are its least and greatest element, priority_levels is
\* the set of the matched records' priority levels and follow_up_needed is
\* true exactly when one of them needs follow-up; the matched records are
\* stored records.
C10_SummaryDerivedFields ==
    (IsSummary /\ last.ret.found)
    => LET r == last.ret
           dates == r.conversation_dates
           hits == r.conversations
       IN  /\ Range(hits) \subseteq Range(conversations)
           /\ Len(dates) = Len(hits)
           /\ \A x \in Range(dates) :
                 Cardinality({i \in 1..Len(dates) : dates[i] = x})
                 = Cardinality({i \in 1..Len(hits) :
                                  hits[i].metadata.conversation_date = x})
           /\ \A i, j \in 1..Len(dates) : i < j => StrLeq(dates[i], dates[j])
           /\ r.first_conversation = dates[1]
           /\ r.last_conversation = dates[Len(dates)]
           /\ r.priority_levels
                = {hits[i].metadata.priority_level : i \in 1..Len(hits)}
           /\ r.follow_up_needed
                <=> \E i \in 1..Len(hits) : hits[i].metadata.follow_up_needed

\* C10 witness: a summary over two records stored with the later date first.
C10_Witness ==
    /\ IsSummary /\ last.ret.found
    /\ Len(last.ret.conversations) = 2
    /\ last.ret.conversations[1].metadata.conversation_date
         # last.ret.conversation_dates[1]
    /\ last.ret.first_conversation # last.ret.last_conversation
    /\ last.ret.follow_up_needed
    /\ Cardinality(last.ret.priority_levels) = 2

\* The stored records the by-name search of a summary can match.
MatchedBy(name) ==
    SelectSeq(conversations, LAMBDA d : Contains(name, d.metadata.patient_name))

\* C11: a summary never raises, and when no stored conversation record
\* matches the requested name (the empty store included) its result has
\* found = false.
C11_SummaryNotFound ==
    IsSummary
    => /\ ~last.raised
       /\ MatchedBy(last.arg) = <<>> => ~last.ret.found

\* C11 witness: records are stored, none of them matches the requested name,
\* the search did not fail and the summary says found = false.
C11_Witness ==
    /\ IsSummary /\ ~last.failed /\ ~last.raised
    /\ conversations # <<>>
    /\ MatchedBy(last.arg) = <<>>
    /\ ~last.ret.found

\* Both concurrent calls ran to the end of their profile write, for the same
\* patient name, and both made the presence check before either of them wrote.
BothCheckedBeforeEitherWrote ==
    /\ DOMAIN running = Procs
    /\ \A p \in Procs : running[p].pc = "done" /\ running[p].wrote
    /\ running[1].arg.name = running[2].arg.name
    /\ \E p \in Procs : running[p].raced

\* C12: when two concurrent ingestions of one patient name both make the
\* presence check before either writes, both conversation records are stored
\* and the two profile writes are of the same kind; after two adds the second
\* is refused, after two updates the second replaces the first: the one
\* profile of the name holds the document and the metadata of exactly one of
\* the two ingestions.
C12_LostProfileWrite ==
    BothCheckedBeforeEitherWrote
    => LET first == CHOOSE p \in Procs : running[p].raced
           second == Other(first)
           winner == IF running[first].saw_existing THEN second ELSE first
           id == running[first].patient_id
       IN  /\ running[first].doc_id # running[second].doc_id
           /\ {running[1].doc_id, running[2].doc_id} \subseteq CollIds(conversations)
           /\ running[second].saw_existing = running[first].saw_existing
           /\ running[second].op = running[first].op
           /\ running[first].ok
           /\ running[second].ok = running[first].saw_existing
           /\ Len(CollGet(patients, {id})) = 1
           /\ ProfileWith(patients, id).metadata
                = running[winner].profile_metadata
           /\ ProfileWith(patients, id).document
                = running[winner].profile_document

\* C12 witness: two ingestions of one name with different contents raced on
\* an absent profile; both records are stored, the second add was refused and
\* the profile does not show the second ingestion.
C12_Witness ==
    /\ BothCheckedBeforeEitherWrote
    /\ \E p \in Procs :
          /\ running[p].raced
          /\ ~running[p].saw_existing
          /\ ~running[Other(p)].ok
          /\ running[Other(p)].profile_document # running[p].profile_document
          /\ ProfileWith(patients, running[p].patient_id).document
               = running[p].profile_document
    /\ Len(conversations) = 2

\* C13: no step of any operation (store, search, summary, stats, export)
\* changes or removes a stored conversation record: the collection after the
\* step starts with the collection before it, so ids, metadata and documents
\* stay as added and the count never decreases.
C13_RecordsNeverChange ==
    [][/\ CollCount(conversations') >= CollCount(conversations)
       /\ SubSeq(conversations', 1, Len(conversations)) = conversations]_vars

\* C13 witness: an ingestion updated the profile of a patient whose earlier
\* record, with other symptoms, is still the first record of the collection.
C13_Witness ==
    /\ IsStore /\ ~last.raised /\ last.had_profile
    /\ Len(conversations) = 2
    /\ conversations[1].metadata.patient_name = last.arg.name
    /\ conversations[1].metadata.symptoms_list # JsonDumps(last.arg.symptoms)
    /\ conversations[2].id = last.doc_id

\* C14: an ingestion whose generated document id is already in the
\* conversations collection raises to its caller and leaves the conversations
\* and the patients collection as they were.
C14_DuplicateIdPropagates ==
    [][(/\ last'.op = "store_patient_data"
        /\ last'.doc_id \in CollIds(conversations))
       => /\ last'.raised
          /\ last'.calls = <<Call("conversations", "add", last'.doc_id, FALSE)>>
          /\ conversations' = conversations
          /\ patients' = patients]_vars

\* C14 witness: an ingestion of a named patient raised on an id that a stored
\* record of another content already has, and the profile is not of this call.
C14_Witness ==
    /\ IsStore /\ last.raised
    /\ Truthy(last.arg.name)
    /\ \E d \in Range(conversations) :
          /\ d.id = last.doc_id
          /\ d.metadata.symptoms_list # JsonDumps(last.arg.symptoms)
    /\ ProfileWith(patients, PatientId(last.arg.name)).document
         # SummaryText(last.arg)

\* C15: the text json.dumps writes for a list of strings is read back by
\* json.loads without error as a list with the same set of tokens.
C15_ListRoundTrip ==
    last.op = "deserialized"
    => /\ last.loaded # JsonError
       /\ Range(last.loaded) = Range(last.list)

\* C15 witness: a list of two different tokens, one of them holding a quote,
\* a comma and a space, was written and read back.
C15_Witness ==
    /\ last.op = "deserialized"
    /\ last.list = <<<<Quote, ",", " ", Quote>>, <<AAcute>>>>
    /\ last.loaded = last.list

\* C16: a search by the symptom list S that did not fail returns every
\* stored record whose symptom list is S (there are no more than n_results
\* of them), so its result is not empty when such a record is stored.
C16_SymptomSearchFindsRecord ==
    (last.op = "search_by_symptoms" /\ ~last.failed)
    => \A d \in Range(conversations) :
          d.metadata.symptoms_list = JsonDumps(last.arg)
          => last.ret # <<>> /\ d \in Range(last.ret)

\* C17: every hit of a search by the name N has a patient_name that contains
\* N, and when a record stored with the name N exists and the search did not
\* fail, the result is not empty.
C17_NameSearchFindsRecord ==
    last.op = "search_by_patient_name"
    => /\ \A h \in Range(last.ret) :
             Contains(last.arg, h.metadata.patient_name)
       /\ (~last.failed /\ RecordsOf(last.arg) # <<>>) => last.ret # <<>>

\* C17 witness: with a record of "Ana" and a record of "Ana M" stored, the
\* search by "Ana M" returned the second only.
C17_Witness ==
    /\ last.op = "search_by_patient_name" /\ ~last.failed
    /\ last.arg = AnaMaria
    /\ RecordsOf(Ana) # <<>>
    /\ Len(last.ret) = 1
    /\ last.ret[1].metadata.patient_name = AnaMaria

\* The stored records whose conversation_date lies in [start, end] as strings.
InDateRange(range) ==
    {d \in Range(conversations) :
        /\ StrLeq(range[1], d.metadata.conversation_date)
        /\ StrLeq(d.metadata.conversation_date, range[2])}

\* C18: a search by date range returns only stored records whose
\* conversation_date d has start <= d <= end as strings, both bounds included,
\* each once, and when it did not fail and there are at most n_results such
\* records it returns all of them.
C18_DateRangeInclusive ==
    last.op = "search_by_date_range"
    => /\ Range(last.ret) \subseteq InDateRange(last.arg)
       /\ Cardinality(Range(last.ret)) = Len(last.ret)
       /\ (~last.failed /\ Cardinality(InDateRange(last.arg)) <= last.n_results)
          => Range(last.ret) = InDateRange(last.arg)

\* C18 witness: of two stored records, the one dated exactly at the end of
\* the range is returned and the one dated before its start is not.
C18_Witness ==
    /\ last.op = "search_by_date_range" /\ ~last.failed
    /\ Len(conversations) = 2
    /\ Len(last.ret) = 1
    /\ last.ret[1].metadata.conversation_date = last.arg[2]
    /\ \E d \in Range(conversations) :
          ~StrLeq(last.arg[1], d.metadata.conversation_date)

EndToEndTranscript ==
    <<"H", "o", "l", "a", ",", " ", "s", "o", "y", " ", "J", "u", "a", "n",
      "a", " ", "D", "e", " ", "L", "a", " ", "T", "o", "r", "r", "e", ",",
      " ", "4", "5", " ", "a", "ñ", "o", "s", ",", " ", "t", "e", "n", "g",
      "o", " ", "f", "i", "e", "b", "r", "e", " ", "y", " ", "d", "o", "l",
      "o", "r", " ", "d", "e", " ", "c", "a", "b", "e", "z", "a">>

DolorDeCabeza ==
    <<"d", "o", "l", "o", "r", " ", "d", "e", " ", "c", "a", "b", "e", "z",
      "a">>

\* C19: the ingestion of the transcript "Hola, soy Juana De La Torre,
\* 45 años, tengo fiebre y dolor de cabeza" into an empty store returns an id
\* and leaves one conversation record, with the name "Juana De La Torre",
\* the age 45, the symptoms {fiebre, dolor de cabeza} and the priority
\* "normal", and one profile, of that name, with total_conversations = 1.
C19_EndToEnd ==
    [][(/\ conversations = <<>> /\ patients = <<>>
        /\ last'.op = "store_patient_data"
        /\ last'.arg.full_text = EndToEndTranscript)
       => /\ ~last'.raised
          /\ Len(conversations') = 1
          /\ conversations'[1].id = last'.ret
          /\ conversations'[1].metadata.patient_name = JuanaDeLaTorre
          /\ conversations'[1].metadata.patient_age = 45
          /\ JsonLoads(conversations'[1].metadata.symptoms_list) # JsonError
          /\ Range(JsonLoads(conversations'[1].metadata.symptoms_list))
               = {Fiebre, DolorDeCabeza}
          /\ conversations'[1].metadata.priority_level = Normal
          /\ Len(patients') = 1
          /\ patients'[1].id = PatientId(JuanaDeLaTorre)
          /\ patients'[1].metadata.patient_name = JuanaDeLaTorre
          /\ patients'[1].metadata.total_conversations = 1]_vars

\* C19 witness: that transcript was ingested; one record and one profile of
\* "Juana De La Torre" are stored.
C19_Witness ==
    /\ IsStore /\ ~last.raised
    /\ last.arg.full_text = EndToEndTranscript
    /\ Len(conversations) = 1
    /\ conversations[1].metadata.patient_name = JuanaDeLaTorre
    /\ conversations[1].metadata.patient_age = 45
    /\ Len(patients) = 1

NameAcceptanceTranscript ==
    <<"m", "i", " ", "n", "o", "m", "b", "r", "e", " ", "e", "s", " ", "J",
      "u", "a", "n", "a", " ", "D", "e", " ", "L", "a", " ", "T", "o", "r",
      "r", "e", " ", "t", "e", "n", "g", "o", " ", "4", "5", " ", "a", "ñ",
      "o", "s">>

\* C20: extract_patient_info on "mi nombre es Juana De La Torre tengo 45 años"
\* gives the name "Juana De La Torre" and the age 45.
C20_NameAcceptance ==
    (last.op = "extract_patient_info" /\ last.arg = NameAcceptanceTranscript)
    => /\ last.ret.name = JuanaDeLaTorre
       /\ last.ret.age = Int(45)

\* The text of an extraction says one of the keywords, in any case of letters.
Says(keywords) == \E k \in keywords : Contains(k, Lower(last.arg))

\* C21: the priority of an extraction is "alta" whenever the text says a
\* high-priority keyword, whatever else it says; "media" exactly when it says
\* a medium-priority keyword and no high-priority keyword; "normal" exactly
\* when it says neither.
C21_PriorityCascade ==
    (last.op = "extract_patient_info" /\ last.arg # <<>>)
    => LET priority == last.ret.priority_level
       IN  /\ Says(HighPrioritySymptoms) => priority = Alta
           /\ priority = Media
                <=> (Says(MediumPrioritySymptoms) /\ ~Says(HighPrioritySymptoms))
           /\ priority = Normal
                <=> (~Says(MediumPrioritySymptoms) /\ ~Says(HighPrioritySymptoms))
           /\ priority \in {Alta, Media, Normal}

\* C21 witness: a text that says "fiebre alta" and "dolor en el pecho", and
\* the symptom keyword "fiebre", was given the priority "alta".
C21_Witness ==
    /\ last.op = "extract_patient_info" /\ last.arg # <<>>
    /\ Says(MediumPrioritySymptoms)
    /\ Says(HighPrioritySymptoms)
    /\ Fiebre \in Range(last.ret.symptoms)
    /\ last.ret.priority_level = Alta

\* The fields of the record extract_patient_info builds for a transcript.
ExtractedFields ==
    {"conversation_id", "full_text", "name", "age", "gender", "symptoms",
     "medications", "promoter_id", "conversation_date", "follow_up_needed",
     "priority_level"}

\* C22: on the empty transcript extract_patient_info returns a record with
\* all its sections, every optional field absent and every list empty, and a
\* request whose transcript is empty and whose steps all work, with or
\* without a name sent along, does not fail on that record.
C22_EmptyTranscriptWellTyped ==
    /\ (last.op = "extract_patient_info" /\ last.arg = <<>>)
       => /\ DOMAIN last.ret = ExtractedFields
          /\ last.ret.name = None
          /\ last.ret.age = NoInt
          /\ last.ret.gender = None
          /\ last.ret.symptoms = <<>>
          /\ last.ret.medications = <<>>
    /\ (/\ last.op = "process_audio"
        /\ last.file_ok
        /\ last.fault = "none"
        /\ Strip(last.heard) = <<>>)
       => last.ret.success

\* A step of the last request raised: the saving of the file, the
\* transcription, the override on the result of the extraction, or
\* store_patient_data.
StepRaised ==
    \/ last.fault \in {"file.write", "transcribe_audio"}
    \/ last.key_error
    \/ (last.store.called /\ last.store.raised)

C29_FailureReached ==
    /\ last.op = "process_audio"
    /\ last.store.called /\ last.store.raised
    /\ ~last.ret.success
    /\ conversations = <<>>

\* C23: an export never changes a collection; for "patients" and
\* "conversations", when the collection can be read and the file written, the
\* snapshot has total_documents equal to the number of stored documents and
\* lists each stored document once, in order, with its id, metadata and
\* document as stored; for any other name the call raises and writes nothing.
C23_ExportSnapshot ==
    [][last'.op = "export_collection_to_json"
       => LET coll == IF last'.arg = "patients" THEN patients
                      ELSE conversations
          IN  /\ conversations' = conversations
              /\ patients' = patients
              /\ IF last'.arg \in {"patients", "conversations"}
                 THEN ~last'.failed
                      => /\ ~last'.raised
                         /\ last'.written.collection_name = last'.arg
                         /\ last'.written.total_documents = CollCount(coll)
                         /\ Len(last'.written.documents) = Len(coll)
                         /\ \A i \in 1..Len(coll) :
                               last'.written.documents[i] = coll[i]
                         /\ \A d \in Range(coll) :
                               Cardinality({i \in 1..Len(last'.written.documents) :
                                              last'.written.documents[i].id = d.id})
                               = 1
                 ELSE /\ last'.raised
                      /\ last'.ret = None
                      /\ last'.written = None]_vars

\* C23 witness: the conversations collection, holding two records, was
\* exported while a profile was stored too.
C23_Witness ==
    /\ last.op = "export_collection_to_json"
    /\ last.arg = "conversations"
    /\ ~last.raised
    /\ last.written.total_documents = 2
    /\ last.written.documents = conversations
    /\ patients # <<>>

\* A concurrent call has derived the id of its profile.
HasProfileId(p) ==
    \/ running[p].pc = "write"
    \/ (running[p].pc = "done" /\ running[p].wrote)

\* C24: under every interleaving of two concurrent ingestions the patients
\* collection holds no id twice and no patient name twice, and two calls for
\* one patient name use the same profile id.
C24_OneProfileUnderInterleaving ==
    /\ \A i, j \in 1..Len(patients) :
          \/ i = j
          \/ /\ patients[i].id # patients[j].id
             /\ patients[i].metadata.patient_name
                  # patients[j].metadata.patient_name
    /\ \A p, q \in Procs :
          (HasProfileId(p) /\ HasProfileId(q)
           /\ running[p].arg.name = running[q].arg.name)
          => running[p].patient_id = running[q].patient_id

\* C24 witness: two calls for one name both found no profile and both added;
\* the second add was refused and one profile of that name is stored.
C24_Witness ==
    /\ \A p \in Procs : running[p].pc = "done" /\ running[p].wrote
    /\ running[1].arg.name = running[2].arg.name
    /\ \A p \in Procs : running[p].op = "add"
    /\ \E p \in Procs : ~running[p].ok
    /\ Len(CollGet(patients, {running[1].patient_id})) = 1
    /\ Len(conversations) = 2

\* C25: no step removes a profile, and a call's profile write is an update
\* exactly when its own presence check, the call just before the write, saw
\* the profile; the id of an update is held by the collection when the update
\* is made, and the update succeeds.
C25_UpdateOnlyPresent ==
    [][/\ CollIds(patients) \subseteq CollIds(patients')
       /\ \A p \in Procs :
             (running[p].pc = "write" /\ running'[p].pc = "done")
             => /\ running'[p].op = "update" <=> running[p].saw_existing
                /\ running'[p].op = "update"
                   => /\ running[p].patient_id \in CollIds(patients)
                      /\ running'[p].ok]_vars

\* C25 witness: two calls for a name whose profile is stored both checked
\* before either wrote, and both updated it.
C25_Witness ==
    /\ \A p \in Procs :
          /\ running[p].pc = "done" /\ running[p].wrote
          /\ running[p].op = "update" /\ running[p].ok
    /\ \E p \in Procs : running[p].raced

\* C26: every stored profile has a stored conversation record with its
\* patient name, the patients collection never counts more than the
\* conversations collection, and get_collection_stats reports these counts.
C26_ProfilesHaveRecords ==
    /\ \A p \in Range(patients) :
          \E d \in Range(conversations) :
             d.metadata.patient_name = p.metadata.patient_name
    /\ CollCount(patients) <= CollCount(conversations)
    /\ (last.op = "get_collection_stats" /\ ~last.failed)
       => /\ last.ret.total_patients = CollCount(patients)
          /\ last.ret.total_conversations = CollCount(conversations)
          /\ last.ret.total_patients <= last.ret.total_conversations

\* C26 witness: the statistics of a store with two records of two patients
\* and one profile for each.
C26_Witness ==
    /\ last.op = "get_collection_stats" /\ ~last.failed
    /\ last.ret.total_conversations = 2
    /\ last.ret.total_patients = 2
    /\ \E d \in Range(conversations) : d.metadata.patient_name = AnaMaria

\* C27: an ingestion of a record whose patient name is None or empty leaves
\* the patients collection as it was and makes no call on it; when the add of
\* the conversation record succeeds the conversations collection is longer by
\* exactly that record, stored under the returned id with the patient name
\* " "; when it raises nothing changes.
C27_NamelessIngestion ==
    [][(last'.op = "store_patient_data" /\ ~Truthy(last'.arg.name))
       => /\ patients' = patients
          /\ \A k \in 1..Len(last'.calls) : last'.calls[k].coll # "patients"
          /\ ~last'.raised
             => /\ Len(conversations') = Len(conversations) + 1
                /\ SubSeq(conversations', 1, Len(conversations)) = conversations
                /\ conversations'[Len(conversations')].id = last'.ret
                /\ conversations'[Len(conversations')].metadata.patient_name
                     = Blank
          /\ last'.raised => conversations' = conversations]_vars

\* C27 witness: a record with the empty string as patient name was ingested
\* into a store that holds a profile; the record is stored under " ".
C27_Witness ==
    /\ IsStore /\ ~last.raised
    /\ last.arg.name = <<>>
    /\ patients # <<>>
    /\ conversations[Len(conversations)].id = last.ret
    /\ conversations[Len(conversations)].metadata.patient_name = Blank
    /\ Len(last.calls) = 1

\* C28: an ingestion of a named record, all of whose collection calls
\* succeed, leaves exactly one profile of that name, whose metadata and
\* document are those of the ingested record; its last_conversation_id is the
\* conversation_id of the last stored record of that name, which is the
\* record just added; the other profiles stay as they were.
C28_ProfileShowsLatest ==
    [][(/\ last'.op = "store_patient_data"
        /\ ~last'.raised
        /\ Truthy(last'.arg.name)
        /\ \E k \in 1..Len(last'.calls) :
              last'.calls[k].coll = "patients" /\ last'.calls[k].op # "get"
        /\ \A k \in 1..Len(last'.calls) : last'.calls[k].ok)
       => LET id == PatientId(last'.arg.name)
              profile == ProfileWith(patients', id)
              records == SelectSeq(conversations',
                                   LAMBDA d : d.metadata.patient_name
                                              = last'.arg.name)
              latest == records[Len(records)]
          IN  /\ Len(CollGet(patients', {id})) = 1
              /\ latest.id = last'.ret
              /\ profile.metadata.last_conversation_id
                   = latest.metadata.conversation_id
              /\ profile.metadata = PatientMetadata(last'.arg, now)
              /\ profile.document = SummaryText(last'.arg)
              /\ \A d \in Range(patients) : d.id # id => d \in Range(patients')]_vars

\* C28 witness: the second ingestion of a name, with another conversation_id
\* than the first, updated the profile, which shows the second.
C28_Witness ==
    /\ IsStore /\ ~last.raised /\ last.had_profile
    /\ last.arg.name = Ana
    /\ Len(last.calls) = 3
    /\ last.calls[3] = Call("patients", "update", PatientId(Ana), TRUE)
    /\ Len(RecordsOf(Ana)) = 2
    /\ RecordsOf(Ana)[1].metadata.conversation_id
         # RecordsOf(Ana)[2].metadata.conversation_id
    /\ ProfileWith(patients, PatientId(Ana)).metadata.last_conversation_id
         = RecordsOf(Ana)[2].metadata.conversation_id

\* C30: a summary whose search did not fail reports no error; it finds
\* nothing when no stored record matches the name, and otherwise its
\* total_conversations is the number of matching records, or 50 when more
\* than 50 match, and it lists that many of them, each once.
C30_SummaryAtMostFifty ==
    IsSummary
    => LET m == Len(MatchedBy(last.arg))
       IN  /\ ~last.raised
           /\ "error" \notin DOMAIN last.ret
           /\ ~last.failed
              => /\ last.ret.found <=> m > 0
                 /\ last.ret.found
                    => /\ last.ret.total_conversations = Min(m, SummaryNResults)
                       /\ Len(last.ret.conversations)
                            = last.ret.total_conversations
                       /\ Cardinality(Range(last.ret.conversations))
                            = last.ret.total_conversations
                       /\ Range(last.ret.conversations)
                            \subseteq Range(MatchedBy(last.arg))

\* C30 witness: more than 50 stored records match the name and the summary
\* counts 50.
C30_Witness ==
    /\ IsSummary /\ ~last.failed
    /\ Len(MatchedBy(last.arg)) > SummaryNResults
    /\ last.ret.found
    /\ last.ret.total_conversations = SummaryNResults

\* C30, below the limit: of more than 50 stored records fewer than 50 match
\* the name, and all of those are counted.
C30_BelowReached ==
    /\ IsSummary /\ ~last.failed
    /\ Len(conversations) > SummaryNResults
    /\ Len(MatchedBy(last.arg)) \in 2..(SummaryNResults - 1)
    /\ last.ret.total_conversations = Len(MatchedBy(last.arg))

=============================================================================
